---- MODULE Spec2Model ----
(***************************************************************************)
(* ViolenceSense rtsp-service: the per-stream violence-event detectors.    *)
(*                                                                         *)
(* Spec          EventDetectionEngine (app/detection/event_engine.py)      *)
(*               driven by ProductionStreamManager                         *)
(*               (app/core/stream_manager.py) and persisting through       *)
(*               EventRepository (app/db/postgres.py).                     *)
(* SpecLegacy    EventDetector (app/events/detector.py) driven by          *)
(*               StreamManager (app/manager.py), the manager the API       *)
(*               routes import, persisting through app/database.py.        *)
(*                                                                         *)
(* Scores are in hundredths (0.50 is 50).  Time is in whole units; the     *)
(* durations are settings read from the environment, run here at one unit  *)
(* each.  An asyncio task is a record with a position: it runs atomically  *)
(* from one await that really suspends to the next.                        *)
(***************************************************************************)
EXTENDS Integers, Sequences, FiniteSets, TLC

\* ------------------------------------------------------------------ bounds
MaxTime == 2
MaxInferences == 6
MaxTasks == 2
MaxStops == 2
MaxMinConsecutive == 2
MaxResults == 6
MaxInFlight == 2
MaxPeak == 100
MaxReviewEvents == 2
MaxGraphs == 3
MaxCalls == 3
max_size == 3
MaxPushes == 5
MaxNow == 4
MaxCount == 4
MaxSeconds == 2
window_fps == 1
MaxThreads == 2
MaxFrames == 3
MaxReconnects == 2
sample_frames == 2
MaxEmitted == 3
MaxSubscribers == 3
MaxMessages == 2
MaxClipEvents == 2
MaxScores == 5
MaxConnectTime == 2
MaxStreams == 3
MaxPredictions == 4
MaxWorkers == 2
MaxIterations == 2
MaxLoaded == 2

\* The classifier outputs fed to the detector: below end_threshold, exactly
\* end_threshold (which is below threshold), and exactly threshold.
Scores == {39, 40, 50}

\* The outputs fed to EventDetector: calm, at threshold (severity LOW) and
\* one in the CRITICAL band of both severity functions.
LegacyScores == {39, 50, 96}

\* ------------------------------------------------------- program constants
threshold == 50
hysteresis_tenths == 8
cooldown_seconds == 1
clip_after_seconds == 1
clip_before_seconds == 1
target_fps == 16
END_CONSECUTIVE == 3
full_clip_after == 1
buffer_size == 1000

None == -1
NoTask == 0

\* init_db: max_retries = 5, retry_delay = 3 (seconds)
max_retries == 5
retry_delay == 3

\* main.py: VIOLENCE_THRESHOLD 0.50, VIOLENCE_ALERT_THRESHOLD 0.90 (as
\* percentages), PREDICTION_SMOOTHING_WINDOW 3
VIOLENCE_THRESHOLD == 50
VIOLENCE_ALERT_THRESHOLD == 90
PREDICTION_SMOOTHING_WINDOW == 3

\* main.py: CLIP_MAX_DURATION 60 and CLIP_AFTER_SECONDS 10 (seconds), scaled
CLIP_MAX_DURATION == 2
CLIP_AFTER_SECONDS == 1

end_threshold == (threshold * hysteresis_tenths) \div 10

\* ------------------------------------------------------------ pure helpers
RECURSIVE SumSeq(_)
SumSeq(s) == IF s = <<>> THEN 0 ELSE Head(s) + SumSeq(Tail(s))

MaxSeq(s) == CHOOSE m \in {s[i] : i \in DOMAIN s} : \A i \in DOMAIN s : s[i] <= m

MinSeq(s) == CHOOSE m \in {s[i] : i \in DOMAIN s} : \A i \in DOMAIN s : m <= s[i]

Max2(a, b) == IF a >= b THEN a ELSE b

Min2(a, b) == IF a <= b THEN a ELSE b

LastN(s, n) == IF n <= 0 THEN s
               ELSE IF Len(s) <= n THEN s
               ELSE SubSeq(s, Len(s) - n + 1, Len(s))

\* EventRepository.calculate_severity
calculate_severity(confidence) ==
    IF confidence >= 95 THEN "critical"
    ELSE IF confidence >= 85 THEN "high"
    ELSE IF confidence >= 75 THEN "medium"
    ELSE "low"

\* A comparison that would leave out the tie at threshold.
is_violent_strict(score) == score > threshold

\* process_score: is_violent = score.violence_score >= self.threshold
is_violent(score) == score >= threshold

\* A comparison that would end the event on a score equal to end_threshold.
is_below_end_inclusive(score) == score <= end_threshold

\* process_score: is_below_end = score.violence_score < end_threshold
is_below_end(score) == score < end_threshold

\* ------------------------------------------------------------------- state
VARIABLES
    clock,                      \* datetime.utcnow(), in time units
    ring_buffer,                \* FFmpegIngestion.ring_buffer: frame numbers
    frame_count,                \* RingBuffer._frame_count
    is_running,                 \* ManagedStream.is_running (inference task alive)
    phase,                      \* DetectorState.phase
    consecutive_violent_count,  \* DetectorState.consecutive_violent_count
    current_event_id,           \* DetectorState.current_event_id
    event_start_time,           \* DetectorState.event_start_time
    event_scores,               \* DetectorState.event_scores
    peak_score,                 \* DetectorState.peak_score
    cooldown_until,             \* DetectorState.cooldown_until
    clip_frames,                \* DetectorState.clip_frames
    ending_task,                \* EventDetectionEngine._ending_task
    tasks,                      \* the finalize tasks on the event loop
    pending_create,             \* process_score suspended in EventRepository.create
    events,                     \* the repository's events table (and its effects)
    min_consecutive,            \* settings.min_consecutive_frames
    total_inferences,           \* EventDetectionEngine.total_inferences
    total_events,               \* EventDetectionEngine.total_events
    stops,                      \* number of stop_stream calls made
    streak,                     \* consecutive latest scores that were >= threshold
    pipeline_running,           \* InferencePipeline.is_running (app/manager.py)
    state,                      \* EventDetector.state (EventState)
    detector,                   \* EventDetector.current_event_id, _inference_count
    end_task,                   \* EventDetector.pending_end_task and its task
    results,                    \* process_result calls in flight
    event_table,                \* app/database.py: the events table
    sev,                        \* a severity computation: its input, site and result
    review,                     \* the review fields of the events table rows
    mgr,                        \* ProductionStreamManager: stream table, graphs, calls in flight
    rb,                         \* RingBuffer / FrameBuffer: packets, pushes so far, clock, last query
    ing,                        \* FFmpegIngestion: flags, status, frame counter, reader threads
    inf,                        \* the inference loops: newest frame, connection, emitted windows
    ws,                         \* WebSocket subscribers and the broadcasts in progress
    clips,                      \* events rows and clip files written at finalization
    sc,                         \* detector state fed with raw classifier outputs
    db,                         \* init_db's progress and the engine it leaves
    shut,                       \* shutdown() of the manager and the finalize tasks it leaves
    rtsp,                       \* main.py SimpleRTSPStream: its run flag and score smoother
    mj,                         \* the MJPEG preview endpoint, its manager's streams and its generators
    lz,                         \* app/manager.py StreamManager: lazy_streams, streams and the last status report
    rec                         \* main.py EventRecorder: phase, event, timers and frames collected

vars == <<clock, ring_buffer, frame_count, is_running, phase,
          consecutive_violent_count, current_event_id, event_start_time,
          event_scores, peak_score, cooldown_until, clip_frames, ending_task,
          tasks, pending_create, events, min_consecutive, total_inferences,
          total_events, stops, streak, pipeline_running, state, detector,
          end_task, results, event_table, sev, review, mgr, rb, ing, inf,
          ws, clips, sc, db, shut, rtsp, mj, lz, rec>>

\* The variables of the component specifications other than Spec and SpecLegacy.
aux_vars == <<sev, review, mgr, rb, ing, inf, ws, clips, sc, db, shut, rtsp, mj, lz, rec>>

engine_vars == <<ring_buffer, frame_count, is_running, phase,
                 consecutive_violent_count, current_event_id, event_start_time,
                 event_scores, peak_score, cooldown_until, clip_frames,
                 ending_task, tasks, pending_create, events, total_inferences,
                 total_events, stops, streak>>

legacy_vars == <<pipeline_running, state, detector, end_task, results, event_table>>

detector_vars == <<phase, consecutive_violent_count, current_event_id,
                   event_start_time, event_scores, peak_score, cooldown_until,
                   clip_frames>>

\* A task that does not exist (yet) or has run to completion.
DoneTask == [kind |-> "none", pc |-> "done", deadline |-> None,
             event_id |-> None, end_time |-> None, scores |-> <<>>,
             alias |-> FALSE, clip |-> <<>>]

NoCreate == [pc |-> "none", score |-> None, ts |-> None]

\* asyncio.create_task: the slot the new task takes.  A finished task's slot
\* is reused unless _ending_task still refers to that finished task.
FreeSlots(keep) == {t \in (1..MaxTasks) : tasks[t].kind = "none" /\ t # keep}

FreshTask(keep) == IF FreeSlots(keep) = {} THEN NoTask
                   ELSE CHOOSE t \in FreeSlots(keep) : \A u \in FreeSlots(keep) : t <= u

\* RingBuffer.get_window(seconds, fps): list(self.buffer)[-int(seconds*fps):]
get_frame_window(seconds) == LastN(ring_buffer, seconds * target_fps)

\* RingBuffer.get_latest(n): list(self.buffer)[-n:]
get_latest(n) == LastN(ring_buffer, n)

\* DetectorState.reset_event (the fields it assigns)
ResetEvent ==
    /\ current_event_id' = None
    /\ event_start_time' = None
    /\ event_scores' = <<>>
    /\ peak_score' = 0
    /\ clip_frames' = <<>>

\* list.append on DetectorState.event_scores is seen by every finalize task
\* that holds the same list object (scores = self.state.event_scores).
AppendAliased(ts, s) ==
    [t \in (1..MaxTasks) |-> IF ts[t].alias THEN [ts[t] EXCEPT !.scores = Append(@, s)] ELSE ts[t]]

\* Assigning a new list to event_scores leaves the old object with the tasks.
Detach(ts) == [t \in (1..MaxTasks) |-> [ts[t] EXCEPT !.alias = FALSE]]

\* EventRepository.finalize_event: the UPDATE it commits on the row.
FinalizeRow(row, end_time, scores, clip) ==
    [row EXCEPT !.end_time = end_time,
                !.duration_seconds = end_time - row.start_time,
                !.max_confidence = MaxSeq(scores),
                !.avg_sum = SumSeq(scores),
                !.avg_n = Len(scores),
                !.min_confidence = MinSeq(scores),
                !.severity = calculate_severity(MaxSeq(scores)),
                !.clip_path = clip,
                !.n_finalize = @ + 1]

\* Task.cancel() on a finalize task.  Sleeping: it just ends.  Suspended in
\* the repository call: CancelledError is raised there (it is not an
\* Exception, so _finalize_event does not catch it); the UPDATE was either
\* committed already or is rolled back.  A finished task: no effect.
\* (CancelTask_noop: a cancel that would leave the task alive.)
CancelTask_noop(ts, t) == ts

CancelTask(ts, t) == IF t = NoTask THEN ts ELSE [ts EXCEPT ![t] = DoneTask]

CancelRows(rows, ts, t, committed) ==
    IF t # NoTask /\ ts[t].pc = "db" /\ committed /\ ts[t].scores # <<>>
    THEN [rows EXCEPT ![ts[t].event_id] =
             FinalizeRow(@, ts[t].end_time, ts[t].scores, ts[t].clip)]
    ELSE rows

\* EventState as _reset_state leaves it, with the given cooldown_until.
EventStateReset(cooldown) ==
    [is_active |-> FALSE, start_time |-> None, scores |-> <<>>,
     consecutive_high_scores |-> 0, consecutive_low_scores |-> 0,
     cooldown_until |-> cooldown]

\* EventState(): the dataclass defaults.
NewEventState == EventStateReset(None)

NoResult == [pc |-> "none", score |-> None, now |-> None, seq |-> None]

\* pending_end_task is None, or its task has finished.
NoEndTask == [pc |-> "none", deadline |-> None, event_id |-> None,
              end_time |-> None, scores |-> <<>>]

TypeOK ==
    /\ clock \in 0..MaxTime
    /\ phase \in {"IDLE", "TRIGGERED", "ACTIVE", "ENDING", "COOLDOWN"}
    /\ is_running \in BOOLEAN
    /\ ending_task \in (1..MaxTasks) \cup {NoTask}
    /\ total_inferences \in 0..MaxInferences

CoreInit ==
    /\ clock = 0
    /\ ring_buffer = <<>>
    /\ frame_count = 0
    /\ is_running = TRUE
    /\ phase = "IDLE"
    /\ consecutive_violent_count = 0
    /\ current_event_id = None
    /\ event_start_time = None
    /\ event_scores = <<>>
    /\ peak_score = 0
    /\ cooldown_until = None
    /\ clip_frames = <<>>
    /\ ending_task = NoTask
    /\ tasks = [t \in (1..MaxTasks) |-> DoneTask]
    /\ pending_create = NoCreate
    /\ events = <<>>
    /\ min_consecutive \in 1..MaxMinConsecutive
    /\ total_inferences = 0
    /\ total_events = 0
    /\ stops = 0
    /\ streak = 0
    /\ pipeline_running = TRUE
    /\ state = NewEventState
    /\ detector = [current_event_id |-> None, inference_count |-> 0]
    /\ end_task = NoEndTask
    /\ results = [i \in (1..MaxInFlight) |-> NoResult]
    /\ event_table = <<>>

\* No severity has been computed.
SevIdle(peak) == [peak |-> peak, site |-> "none", severity |-> "none"]

\* The events under review; a row before any review call (status PENDING,
\* reviewed_by and notes NULL).
NoReviews == [e \in (1..MaxReviewEvents) |->
                 [status |-> "PENDING", reviewed_by |-> "None", notes |-> "None"]]

\* ProductionStreamManager for one stream_id. streams is the graph held in
\* the stream table under that id (0: the id is not loaded); a graph is
\* "none" (not built), "created", "running" (capture worker and inference
\* task started, is_running set), "stopping" (task cancelled and awaited,
\* is_running still set) or "stopped".
IdleCall == [pc |-> "idle", managed |-> 0]

IdleManager(loaded) ==
    [streams |-> loaded,
     graphs  |-> [g \in (1..MaxGraphs) |-> IF g <= loaded THEN "created" ELSE "none"],
     calls   |-> [c \in (1..MaxCalls) |-> IdleCall]]

\* RingBuffer(max_size) right after construction. pushed is every packet
\* handed to push so far, now the wall clock the packets are stamped with,
\* query the last read of the buffer and what it returned.
NoQuery == [op |-> "none", arg |-> 0, result |-> <<>>]

EmptyBuffer == [buffer |-> <<>>, pushed |-> <<>>, now |-> 0, query |-> NoQuery]

\* FFmpegIngestion.__init__ with config.max_reconnect_attempts = budget.
\* process is the thread whose decoder self.process refers to (0: None);
\* threads is each reader thread's position in _reader_loop; pushed is
\* the frame_number of every packet pushed into the ring buffer so far;
\* attempts is the number of reconnect attempts since start() or the last
\* delivered frame; orphans is the number of decoders still running that
\* self.process no longer refers to.
NewIngestion(budget) ==
    [is_running |-> FALSE, process |-> 0, status |-> "disconnected",
     frame_count |-> 0, reconnect_count |-> 0,
     max_reconnect_attempts |-> budget,
     threads |-> [t \in (1..MaxThreads) |-> "none"],
     pushed |-> <<>>, attempts |-> 0, orphans |-> 0]

\* The two inference loops over one source. newest is the frame_number of
\* the newest buffered packet (its timestamp grows with it), emitted the
\* window_end of every InferenceScore of core/stream_manager.py's loop,
\* results_emitted the newest frame of every InferenceResult of
\* inference/pipeline.py's loop, failed the newest frame of every window on
\* which that loop's classifier call raised or timed out.
IdleInference ==
    [newest |-> 0, is_connected |-> TRUE, emitted |-> <<>>,
     last_frame_number |-> -1, results_emitted |-> <<>>, failed |-> <<>>]

\* routes.py active_connections and the broadcast_message calls in
\* progress. slow is the subscriber whose send_json does not complete
\* (0: none); a call holds its copy of the connection list and the index
\* of the connection it is sending to; delivered is what each subscriber
\* has received, accepted the WebSocket objects created so far.
IdleBroadcast == [pc |-> "idle", copy |-> <<>>, pos |-> 0]

NoSubscribers(slow) ==
    [active_connections |-> <<>>, accepted |-> {}, slow |-> slow,
     calls |-> [m \in (1..MaxMessages) |-> IdleBroadcast],
     delivered |-> [c \in (1..MaxSubscribers) |-> {}]]

\* An events row before finalization, and the clips directory.
OpenClipRow ==
    [end_time |-> None, status |-> "ACTIVE", clip_path |-> None,
     clip_duration |-> None, thumbnail_path |-> None, encoding_failed |-> FALSE]

NoClips ==
    [rows |-> [e \in (1..MaxClipEvents) |-> OpenClipRow], files |-> {}, partial |-> {}]

\* A classifier output that is not a number (float("nan")); every ordered
\* comparison with it is false.
NaN == 999

\* result_data["violence_score"] in percent: not a number, below 0, 0,
\* at or above the threshold, and above 1.
RawScores == {NaN, -20, 0, 60, 150}

\* Python's a >= b, a < b and a > b on floats.
float_ge(a, b) == a # NaN /\ b # NaN /\ a >= b

float_lt(a, b) == a # NaN /\ b # NaN /\ a < b

float_gt(a, b) == a # NaN /\ b # NaN /\ a > b

\* Python's a + b on floats.
float_add(a, b) == IF a = NaN \/ b = NaN THEN NaN ELSE a + b

\* Python's max(scores), min(scores) and sum(scores) on a non-empty list:
\* the running result is replaced when the next item compares greater
\* (smaller).
RECURSIVE py_max(_)
py_max(scores) ==
    IF Len(scores) = 1 THEN scores[1]
    ELSE LET m == py_max(SubSeq(scores, 1, Len(scores) - 1))
             x == scores[Len(scores)]
         IN IF float_gt(x, m) THEN x ELSE m

RECURSIVE py_min(_)
py_min(scores) ==
    IF Len(scores) = 1 THEN scores[1]
    ELSE LET m == py_min(SubSeq(scores, 1, Len(scores) - 1))
             x == scores[Len(scores)]
         IN IF float_lt(x, m) THEN x ELSE m

RECURSIVE py_sum(_)
py_sum(scores) ==
    IF scores = <<>> THEN 0
    ELSE float_add(py_sum(SubSeq(scores, 1, Len(scores) - 1)), scores[Len(scores)])

\* DetectorState after __init__, with the configured min_consecutive.
IdleDetector(n) ==
    [phase |-> "IDLE", consecutive_violent_count |-> 0,
     min_consecutive |-> n, event_scores |-> <<>>,
     rows |-> <<>>, processed |-> 0, last |-> 0]

\* db/postgres.py before init_db is called: _engine is None.
NoEngine ==
    [pc |-> "idle", attempt |-> 0, log |-> <<>>, now |-> 0,
     engine |-> FALSE, is_initialized |-> FALSE]

\* A manager with its streams running, each detector in some phase, before
\* shutdown() is called. finalize: the task force_end_event creates.
RunningStreams(phases) ==
    [pc |-> "running", stream |-> 0, phases |-> phases,
     open_at_shutdown |-> {},
     finalize |-> [s \in (1..MaxStreams) |-> "none"],
     finalized |-> {}, engine_disposed |-> FALSE]

\* main.py SimpleRTSPStream after __init__: not running, an empty window of
\* recent raw scores, no consecutive high score. predictions counts the
\* iterations of _inference_loop that had a result.
NewStream ==
    [is_running |-> FALSE, recent_scores |-> <<>>,
     consecutive_high_count |-> 0, is_violent |-> FALSE, predictions |-> 0]

\* The MJPEG preview endpoint of the running service: app is "routes" for
\* app/api/routes.py over app/manager.py, "main" for main.py. No stream is
\* registered and no request has been made.
NoPreviews(app) ==
    [app |-> app, streams |-> {}, next_id |-> 1,
     workers |-> [w \in (1..MaxWorkers) |->
                     [pc |-> "none", stream_id |-> 0, iterations |-> 0]]]

\* app/manager.py StreamManager after initialize(): _load_streams_from_db
\* has stored the active rows 1..loaded as LazyStreamConfig entries of
\* lazy_streams; streams is empty. running: the ids whose ingestion and
\* pipeline are started; reported[id]: how many entries the last
\* get_all_status returned for id.
LoadedManager(loaded) ==
    [loaded |-> loaded, lazy_streams |-> 1..loaded, streams |-> {},
     running |-> {}, next_id |-> loaded + 1,
     reported |-> [id \in (1..MaxStreams) |-> 0]]

\* main.py EventRecorder after __init__: IDLE, no event, no timers. now is
\* the time.time() the callers pass as timestamp; event_frames and
\* post_buffer_frames count the frames of the current event; frames counts
\* the add_frame calls; violence_since is the timestamp at which the
\* current VIOLENCE period was entered (not a field of the recorder).
NewRecorder ==
    [phase |-> "IDLE", current_event |-> FALSE,
     violence_start_time |-> None, post_buffer_start |-> None,
     event_frames |-> 0, post_buffer_frames |-> 0,
     now |-> 1, frames |-> 0, violence_since |-> None]

\* The component variables as they are before any component has acted.
AuxDefault ==
    [sev |-> SevIdle(0),
     review |-> NoReviews,
     mgr |-> IdleManager(0),
     rb |-> EmptyBuffer,
     ing |-> NewIngestion(-1),
     inf |-> IdleInference,
     ws |-> NoSubscribers(0),
     clips |-> NoClips,
     sc |-> IdleDetector(1),
     db |-> NoEngine,
     shut |-> RunningStreams([s \in (1..MaxStreams) |-> "IDLE"]),
     rtsp |-> NewStream,
     mj |-> NoPreviews("routes"),
     lz |-> LoadedManager(0),
     rec |-> NewRecorder]

\* The component variables start as the record a gives them.
AuxInitFrom(a) ==
    /\ sev = a.sev
    /\ review = a.review
    /\ mgr = a.mgr
    /\ rb = a.rb
    /\ ing = a.ing
    /\ inf = a.inf
    /\ ws = a.ws
    /\ clips = a.clips
    /\ sc = a.sc
    /\ db = a.db
    /\ shut = a.shut
    /\ rtsp = a.rtsp
    /\ mj = a.mj
    /\ lz = a.lz
    /\ rec = a.rec

\* An initial state with the component variables as one of the records of A.
InitFrom(A) == CoreInit /\ \E a \in A : AuxInitFrom(a)

\* Every component as constructed.
Init == CoreInit /\ AuxInitFrom(AuxDefault)

\* ----------------------------------------------------------------- actions
\* One time unit passes.  The capture worker of a started source reads one
\* frame in it and pushes it: RingBuffer.push (a deque with maxlen).
Tick ==
    /\ UNCHANGED <<legacy_vars, aux_vars>>
    /\ clock < MaxTime
    /\ clock' = clock + 1
    /\ IF is_running
       THEN /\ frame_count' = frame_count + 1
            /\ ring_buffer' = LastN(Append(ring_buffer, frame_count + 1), buffer_size)
       ELSE UNCHANGED <<frame_count, ring_buffer>>
    /\ UNCHANGED <<is_running, detector_vars, ending_task, tasks,
                   pending_create, events, min_consecutive, total_inferences,
                   total_events, stops, streak>>

\* A comparison that would keep the cooldown one instant longer.
cooldown_over_late(now) == cooldown_until # None /\ now > cooldown_until

\* process_score, line 190: self.state.cooldown_until and
\* score.timestamp >= self.state.cooldown_until
cooldown_over(now) == cooldown_until # None /\ now >= cooldown_until

\* EventDetectionEngine.process_score(score), awaited by the inference task;
\* score.timestamp is utcnow() taken right before the call.  The step runs to
\* the end of the call, or to the await of EventRepository.create.
\* committed: the outcome of cancelling a finalize suspended in the repository.
ProcessScore(s, committed) ==
    /\ UNCHANGED <<legacy_vars, aux_vars>>
    /\ is_running
    /\ pending_create.pc = "none"
    /\ total_inferences < MaxInferences
    /\ total_inferences' = total_inferences + 1
    /\ streak' = IF s >= threshold THEN Min2(streak + 1, MaxMinConsecutive) ELSE 0
    /\ UNCHANGED <<clock, ring_buffer, frame_count, is_running, min_consecutive,
                   total_events, stops>>
    /\ LET now == clock
           in_cooldown == phase = "COOLDOWN" /\ ~cooldown_over(now)
           ph == IF phase = "COOLDOWN" THEN "IDLE" ELSE phase
           pre_frames == get_frame_window(clip_before_seconds)
           frames == IF ph \in {"IDLE", "TRIGGERED"} /\ pre_frames # <<>>
                     THEN pre_frames ELSE clip_frames
       IN
       IF in_cooldown
       THEN UNCHANGED <<detector_vars, ending_task, tasks, pending_create, events>>
       ELSE
       CASE ph = "IDLE" ->
              /\ phase' = IF is_violent(s) THEN "TRIGGERED" ELSE "IDLE"
              /\ consecutive_violent_count' =
                     IF is_violent(s) THEN 1 ELSE consecutive_violent_count
              /\ clip_frames' = frames
              /\ UNCHANGED <<current_event_id, event_start_time, event_scores,
                             peak_score, cooldown_until, ending_task, tasks,
                             pending_create, events>>
         [] ph = "TRIGGERED" /\ ~is_violent(s) ->
              /\ phase' = "IDLE"
              /\ consecutive_violent_count' = 0
              /\ clip_frames' = frames
              /\ UNCHANGED <<current_event_id, event_start_time, event_scores,
                             peak_score, cooldown_until, ending_task, tasks,
                             pending_create, events>>
         [] ph = "TRIGGERED" /\ is_violent(s)
                 /\ consecutive_violent_count + 1 < min_consecutive ->
              /\ consecutive_violent_count' = consecutive_violent_count + 1
              /\ clip_frames' = frames
              /\ UNCHANGED <<phase, current_event_id, event_start_time,
                             event_scores, peak_score, cooldown_until,
                             ending_task, tasks, pending_create, events>>
         [] ph = "TRIGGERED" /\ is_violent(s)
                 /\ consecutive_violent_count + 1 >= min_consecutive ->
              \* _transition_to_active, up to await EventRepository.create
              /\ consecutive_violent_count' = consecutive_violent_count + 1
              /\ clip_frames' = frames
              /\ phase' = "ACTIVE"
              /\ event_start_time' = now
              /\ event_scores' = <<s>>
              /\ peak_score' = s
              /\ tasks' = Detach(tasks)
              /\ pending_create' = [pc |-> "create", score |-> s, ts |-> now]
              /\ UNCHANGED <<current_event_id, cooldown_until, ending_task, events>>
         [] ph = "ACTIVE" /\ is_below_end(s) ->
              \* _transition_to_ending: create_task(_complete_event_ending)
              /\ FreshTask(NoTask) # NoTask
              /\ event_scores' = Append(event_scores, s)
              /\ peak_score' = Max2(peak_score, s)
              /\ clip_frames' = clip_frames \o get_latest(1)
              /\ phase' = "ENDING"
              /\ ending_task' = FreshTask(NoTask)
              /\ tasks' = [AppendAliased(tasks, s) EXCEPT ![FreshTask(NoTask)] =
                     [DoneTask EXCEPT !.kind = "ending", !.pc = "sleep",
                                      !.deadline = now + clip_after_seconds]]
              /\ UNCHANGED <<consecutive_violent_count, current_event_id,
                             event_start_time, cooldown_until, pending_create,
                             events>>
         [] ph = "ACTIVE" /\ ~is_below_end(s) ->
              /\ event_scores' = Append(event_scores, s)
              /\ peak_score' = Max2(peak_score, s)
              /\ clip_frames' = clip_frames \o get_latest(1)
              /\ ending_task' = NoTask
              /\ tasks' = AppendAliased(CancelTask(tasks, ending_task), s)
              /\ events' = CancelRows(events, tasks, ending_task, committed)
              /\ UNCHANGED <<phase, consecutive_violent_count, current_event_id,
                             event_start_time, cooldown_until, pending_create>>
         [] ph = "ENDING" /\ is_violent(s) ->
              /\ phase' = "ACTIVE"
              /\ ending_task' = NoTask
              /\ event_scores' = Append(event_scores, s)
              /\ tasks' = AppendAliased(CancelTask(tasks, ending_task), s)
              /\ events' = CancelRows(events, tasks, ending_task, committed)
              /\ UNCHANGED <<consecutive_violent_count, current_event_id,
                             event_start_time, peak_score, cooldown_until,
                             clip_frames, pending_create>>
         [] ph = "ENDING" /\ ~is_violent(s) ->
              UNCHANGED <<detector_vars, ending_task, tasks, pending_create, events>>

\* EventRepository.create: the row it inserts. broadcast is the sequence
\* of messages the manager's callbacks have sent with the row's id.
NewRow(start_time, score) ==
    [start_time |-> start_time, end_time |-> None, duration_seconds |-> None,
     max_confidence |-> score, avg_sum |-> score, avg_n |-> 1,
     min_confidence |-> score, severity |-> calculate_severity(score),
     clip_path |-> <<>>, n_clip |-> 0, n_finalize |-> 0, n_end_cb |-> 0,
     broadcast |-> <<>>]

\* _transition_to_active resumes after await EventRepository.create.
\* ok = FALSE: the repository raised; the handler logs and returns None.
\* On success on_event_start is called (broadcast "event_started").
CreateDone(ok) ==
    /\ UNCHANGED <<legacy_vars, aux_vars>>
    /\ pending_create.pc = "create"
    /\ pending_create' = NoCreate
    /\ IF ok
       THEN /\ events' = Append(events,
                                 [NewRow(pending_create.ts, pending_create.score)
                                     EXCEPT !.broadcast = <<"event_started">>])
            /\ current_event_id' = Len(events) + 1
            /\ total_events' = total_events + 1
       ELSE UNCHANGED <<events, current_event_id, total_events>>
    /\ UNCHANGED <<clock, ring_buffer, frame_count, is_running, phase,
                   consecutive_violent_count, event_start_time, event_scores,
                   peak_score, cooldown_until, clip_frames, ending_task, tasks,
                   min_consecutive, total_inferences, stops, streak>>

\* _finalize_event, lines 438-442: enter cooldown.
EnterCooldown(end_time) ==
    /\ cooldown_until' = end_time + cooldown_seconds
    /\ phase' = "COOLDOWN"
    /\ ResetEvent

\* _finalize_event reaches its await of EventRepository.finalize_event: it
\* returns at once without an event id, and the average it logs raises
\* ZeroDivisionError on an empty score list (the task dies there).
FinalizeBegins == current_event_id # None /\ event_scores # <<>>

\* _finalize_event, lines 353-408: the clip is saved when clip frames exist.
SaveClip(rows) ==
    [rows EXCEPT ![current_event_id].n_clip = IF clip_frames # <<>> THEN @ + 1 ELSE @]

\* The finalize task suspended in EventRepository.finalize_event, with the
\* locals it holds: end_time = utcnow(), scores = self.state.event_scores
\* (the same list object), the frames of the clip.
SuspendedFinalize(kind, deadline) ==
    [kind |-> kind, pc |-> "db", deadline |-> deadline,
     event_id |-> current_event_id, end_time |-> clock,
     scores |-> event_scores, alias |-> TRUE,
     clip |-> IF clip_frames # <<>>
              THEN clip_frames \o get_frame_window(clip_after_seconds)
              ELSE <<>>]

\* _complete_event_ending wakes from asyncio.sleep(clip_after_seconds): if the
\* phase is still ENDING it runs _finalize_event up to the repository await.
FinalizeStart(t) ==
    /\ UNCHANGED <<legacy_vars, aux_vars>>
    /\ tasks[t].kind = "ending" /\ tasks[t].pc = "sleep"
    /\ clock >= tasks[t].deadline
    /\ IF phase = "ENDING" /\ FinalizeBegins
       THEN /\ events' = SaveClip(events)
            /\ tasks' = [tasks EXCEPT ![t] = SuspendedFinalize("ending", tasks[t].deadline)]
       ELSE /\ tasks' = [tasks EXCEPT ![t] = DoneTask]
            /\ UNCHANGED events
    /\ UNCHANGED <<clock, ring_buffer, frame_count, is_running, detector_vars,
                   ending_task, pending_create, min_consecutive,
                   total_inferences, total_events, stops, streak>>

\* _finalize_event resumes after await EventRepository.finalize_event: the row
\* is updated, on_event_end and then on_alert are called with it (broadcast
\* "event_ended", then "alert"), the detector enters cooldown and resets the
\* event state.
FinalizeDone(t) ==
    /\ UNCHANGED <<legacy_vars, aux_vars>>
    /\ tasks[t].pc = "db"
    /\ events' = [events EXCEPT ![tasks[t].event_id] =
                     [FinalizeRow(@, tasks[t].end_time, tasks[t].scores, tasks[t].clip)
                         EXCEPT !.n_end_cb = @ + 1,
                                !.broadcast = @ \o <<"event_ended", "alert">>]]
    /\ tasks' = Detach([tasks EXCEPT ![t] = DoneTask])
    /\ EnterCooldown(tasks[t].end_time)
    /\ UNCHANGED <<clock, ring_buffer, frame_count, is_running, ending_task,
                   pending_create, min_consecutive, total_inferences,
                   total_events, stops, streak,
                   consecutive_violent_count>>

\* EventDetectionEngine.force_end_event: create_task(_finalize_event) when
\* the phase is ACTIVE or ENDING; _ending_task is left alone.
force_end_event == phase \in {"ACTIVE", "ENDING"}

\* ProductionStreamManager.stop_stream: force_end_event(), then the inference
\* task is cancelled and awaited.  At that await the new finalize task runs
\* first, up to its repository await; then a process_score suspended in
\* EventRepository.create gets CancelledError there: the INSERT was committed
\* already or is lost, and current_event_id is never assigned.
StopStream(committed) ==
    /\ UNCHANGED <<legacy_vars, aux_vars>>
    /\ stops < MaxStops
    /\ stops' = stops + 1
    /\ LET forced == force_end_event /\ FinalizeBegins
           slot == FreshTask(ending_task)
           rows == IF forced THEN SaveClip(events) ELSE events
       IN /\ forced => slot # NoTask
          /\ tasks' = IF forced
                      THEN [tasks EXCEPT ![slot] = SuspendedFinalize("force", None)]
                      ELSE tasks
          /\ events' = IF pending_create.pc = "create" /\ committed
                       THEN Append(rows, NewRow(pending_create.ts, pending_create.score))
                       ELSE rows
    /\ is_running' = FALSE
    /\ pending_create' = NoCreate
    /\ UNCHANGED <<clock, ring_buffer, frame_count, detector_vars, ending_task,
                   min_consecutive, total_inferences, total_events, streak>>

\* ProductionStreamManager.start_stream on a stopped stream: a new inference
\* task feeds the same detector.
StartStream ==
    /\ UNCHANGED <<legacy_vars, aux_vars>>
    /\ ~is_running
    /\ is_running' = TRUE
    /\ UNCHANGED <<clock, ring_buffer, frame_count, detector_vars, ending_task,
                   tasks, pending_create, events, min_consecutive,
                   total_inferences, total_events, stops, streak>>

Next ==
    \/ Tick
    \/ \E s \in Scores, committed \in BOOLEAN : ProcessScore(s, committed)
    \/ \E ok \in BOOLEAN : CreateDone(ok)
    \/ \E t \in (1..MaxTasks) : FinalizeStart(t)
    \/ \E t \in (1..MaxTasks) : FinalizeDone(t)
    \/ \E committed \in BOOLEAN : StopStream(committed)
    \/ StartStream

Spec == Init /\ [][Next]_vars

\* ------------------------------------------- EventDetector (SpecLegacy)
\* InferenceResult.is_violent: violence_score >= settings.violence_threshold
\* (the camera is taken as stable: is_stable and is_camera_shake default so).
result_is_violent(score) == score >= threshold

\* EventDetector._calculate_severity
detector_calculate_severity(confidence) ==
    IF confidence >= 90 THEN "critical"
    ELSE IF confidence >= 80 THEN "high"
    ELSE IF confidence >= 70 THEN "medium"
    ELSE "low"

\* EventDetector._create_event: the row it inserts.  S is the score list the
\* row's statistics were last computed from.
NewEventRow(start_time, score) ==
    [start_time |-> start_time, end_time |-> None, duration_seconds |-> None,
     max_confidence |-> score, avg_sum |-> score, avg_n |-> 1,
     min_confidence |-> score,
     severity |-> detector_calculate_severity(score),
     S |-> <<score>>, n_finalize |-> 0]

\* EventDetector._finalize_event: the UPDATE it commits; the statement names
\* no severity column.
UpdateEventRow(row, end_time, scores) ==
    [row EXCEPT !.end_time = end_time,
                !.duration_seconds = end_time - row.start_time,
                !.max_confidence = IF scores # <<>> THEN MaxSeq(scores) ELSE 0,
                !.avg_sum = SumSeq(scores),
                !.avg_n = Len(scores),
                !.min_confidence = IF scores # <<>> THEN MinSeq(scores) ELSE 0,
                !.S = scores,
                !.n_finalize = @ + 1]

\* seq is a result's place among the results in flight, in the order the
\* inference loop emitted them (1: the oldest).
InEmissionOrder(rs) ==
    [i \in (1..MaxInFlight) |->
        IF rs[i].pc = "none" THEN rs[i]
        ELSE [rs[i] EXCEPT !.seq =
                 1 + Cardinality({j \in (1..MaxInFlight) :
                                     rs[j].pc # "none" /\ rs[j].seq < rs[i].seq})]]

FreeResults == {i \in (1..MaxInFlight) : results[i].pc = "none"}

\* The inference thread hands a result to the loop (on_inference_result:
\* call_soon_threadsafe + create_task); the new task runs process_result up
\* to await self._log_inference.
Dispatch(s) ==
    /\ UNCHANGED aux_vars
    /\ pipeline_running
    /\ detector.inference_count < MaxResults
    /\ FreeResults # {}
    /\ LET i == CHOOSE j \in FreeResults : \A k \in FreeResults : j <= k
       IN results' = InEmissionOrder(
              [results EXCEPT ![i] = [pc |-> "log", score |-> s, now |-> clock,
                                      seq |-> MaxInFlight + 1]])
    /\ detector' = [detector EXCEPT !.inference_count = @ + 1]
    /\ UNCHANGED <<clock, min_consecutive, engine_vars, pipeline_running,
                   state, end_task, event_table>>

\* process_result resumes after _log_inference and runs to its end, or to
\* await self._create_event inside _start_event.
\* committed: the outcome of cancelling an end task suspended in the UPDATE.
ResultLogged(i, committed) ==
    /\ UNCHANGED aux_vars
    /\ results[i].pc = "log"
    /\ UNCHANGED <<clock, min_consecutive, engine_vars, pipeline_running, detector>>
    /\ LET s == results[i].score
           in_cooldown == state.cooldown_until # None
                          /\ results[i].now < state.cooldown_until
           high == state.consecutive_high_scores + 1
           low == state.consecutive_low_scores + 1
       IN
       CASE result_is_violent(s) /\ state.is_active ->
              /\ state' = [state EXCEPT !.consecutive_high_scores = high,
                                        !.consecutive_low_scores = 0,
                                        !.scores = Append(@, s)]
              /\ end_task' = NoEndTask
              /\ event_table' =
                     IF end_task.pc = "db" /\ committed
                     THEN [event_table EXCEPT ![end_task.event_id] =
                              UpdateEventRow(@, end_task.end_time, end_task.scores)]
                     ELSE event_table
              /\ results' = InEmissionOrder([results EXCEPT ![i] = NoResult])
         [] result_is_violent(s) /\ ~state.is_active
                 /\ ~in_cooldown /\ high >= min_consecutive ->
              \* _start_event, up to await self._create_event
              /\ state' = [state EXCEPT !.consecutive_high_scores = high,
                                        !.consecutive_low_scores = 0,
                                        !.is_active = TRUE,
                                        !.start_time = clock,
                                        !.scores = <<s>>]
              /\ results' = InEmissionOrder([results EXCEPT ![i] = [@ EXCEPT !.pc = "create", !.now = clock]])
              /\ UNCHANGED <<end_task, event_table>>
         [] result_is_violent(s) /\ ~state.is_active
                 /\ (in_cooldown \/ high < min_consecutive) ->
              /\ state' = [state EXCEPT !.consecutive_high_scores = high,
                                        !.consecutive_low_scores = 0]
              /\ results' = InEmissionOrder([results EXCEPT ![i] = NoResult])
              /\ UNCHANGED <<end_task, event_table>>
         [] ~result_is_violent(s) /\ state.is_active ->
              /\ state' = [state EXCEPT !.consecutive_low_scores = low,
                                        !.scores = Append(@, s)]
              /\ end_task' =
                     IF low >= END_CONSECUTIVE /\ end_task.pc = "none"
                     THEN [NoEndTask EXCEPT !.pc = "sleep",
                                            !.deadline = clock + full_clip_after]
                     ELSE end_task
              /\ results' = InEmissionOrder([results EXCEPT ![i] = NoResult])
              /\ UNCHANGED event_table
         [] ~result_is_violent(s) /\ ~state.is_active ->
              /\ state' = [state EXCEPT !.consecutive_low_scores = low,
                                        !.consecutive_high_scores = 0]
              /\ results' = InEmissionOrder([results EXCEPT ![i] = NoResult])
              /\ UNCHANGED <<end_task, event_table>>

\* _start_event resumes after await self._create_event (None when the
\* repository raised) and process_result returns.
CreateEventDone(i, ok) ==
    /\ UNCHANGED aux_vars
    /\ results[i].pc = "create"
    /\ results' = InEmissionOrder([results EXCEPT ![i] = NoResult])
    /\ IF ok
       THEN /\ event_table' = Append(event_table,
                                     NewEventRow(results[i].now, results[i].score))
            /\ detector' = [detector EXCEPT !.current_event_id = Len(event_table) + 1]
       ELSE /\ detector' = [detector EXCEPT !.current_event_id = None]
            /\ UNCHANGED event_table
    /\ UNCHANGED <<clock, min_consecutive, engine_vars, pipeline_running,
                   state, end_task>>

\* EventDetector._reset_state
ResetState ==
    /\ state' = EventStateReset(clock + cooldown_seconds)
    /\ detector' = [detector EXCEPT !.current_event_id = None]
    /\ end_task' = NoEndTask

\* _delayed_event_end wakes from asyncio.sleep(full_clip_after) and, if the
\* event is still active, runs _end_event up to await self._finalize_event
\* (skipped without an event id: the state is reset at once).
EndTaskWake ==
    /\ UNCHANGED aux_vars
    /\ end_task.pc = "sleep"
    /\ clock >= end_task.deadline
    /\ IF ~state.is_active
       THEN /\ end_task' = NoEndTask
            /\ UNCHANGED <<state, detector>>
       ELSE IF detector.current_event_id = None
       THEN ResetState
       ELSE /\ end_task' = [end_task EXCEPT !.pc = "db",
                               !.event_id = detector.current_event_id,
                               !.end_time = clock,
                               !.scores = state.scores]
            /\ UNCHANGED <<state, detector>>
    /\ UNCHANGED <<clock, min_consecutive, engine_vars, pipeline_running,
                   results, event_table>>

\* _end_event resumes after await self._finalize_event: on_event_end is
\* broadcast and the state is reset.
EndEventDone ==
    /\ UNCHANGED aux_vars
    /\ end_task.pc = "db"
    /\ event_table' = [event_table EXCEPT ![end_task.event_id] =
                          UpdateEventRow(@, end_task.end_time, end_task.scores)]
    /\ ResetState
    /\ UNCHANGED <<clock, min_consecutive, engine_vars, pipeline_running, results>>

\* StreamManager.stop_stream (app/manager.py): pipeline.stop() and
\* ingestion.stop(); the detector is not told.
LegacyStopStream ==
    /\ UNCHANGED aux_vars
    /\ pipeline_running
    /\ pipeline_running' = FALSE
    /\ UNCHANGED <<clock, min_consecutive, engine_vars, state, detector,
                   end_task, results, event_table>>

\* StreamManager.start_stream: ingestion.start(), pipeline.start().
LegacyStartStream ==
    /\ UNCHANGED aux_vars
    /\ ~pipeline_running
    /\ pipeline_running' = TRUE
    /\ UNCHANGED <<clock, min_consecutive, engine_vars, state, detector,
                   end_task, results, event_table>>

\* One time unit passes.
LegacyTick ==
    /\ UNCHANGED aux_vars
    /\ clock < MaxTime
    /\ clock' = clock + 1
    /\ UNCHANGED <<min_consecutive, engine_vars, legacy_vars>>

LegacyNext ==
    \/ LegacyTick
    \/ \E s \in LegacyScores : Dispatch(s)
    \/ \E i \in (1..MaxInFlight), committed \in BOOLEAN : ResultLogged(i, committed)
    \/ \E i \in (1..MaxInFlight), ok \in BOOLEAN : CreateEventDone(i, ok)
    \/ EndTaskWake
    \/ EndEventDone
    \/ LegacyStopStream
    \/ LegacyStartStream

SpecLegacy == Init /\ [][LegacyNext]_vars

\* ------------------------------------------- severity (SpecSeverity)
\* store_event_async (main.py): the severity it derives from the confidence.
store_event_severity(confidence) ==
    IF confidence >= 95 THEN "critical"
    ELSE IF confidence >= 85 THEN "high"
    ELSE IF confidence >= 70 THEN "medium"
    ELSE "low"

\* The state of the other components, which a component specification
\* leaves alone.
core_vars == <<clock, min_consecutive, engine_vars, legacy_vars>>

\* EventRepository.calculate_severity is applied to the peak.
RepositorySeverity ==
    /\ sev.site = "none"
    /\ sev' = [sev EXCEPT !.site = "repository",
                          !.severity = calculate_severity(sev.peak)]
    /\ UNCHANGED <<core_vars, review, mgr, rb, ing, inf, ws, clips, sc, db, shut, rtsp, mj, lz, rec>>

\* EventDetector._calculate_severity is applied to the peak.
DetectorSeverity ==
    /\ sev.site = "none"
    /\ sev' = [sev EXCEPT !.site = "detector",
                          !.severity = detector_calculate_severity(sev.peak)]
    /\ UNCHANGED <<core_vars, review, mgr, rb, ing, inf, ws, clips, sc, db, shut, rtsp, mj, lz, rec>>

\* store_event_async derives the severity of the event it stores.
StoreEventSeverity ==
    /\ sev.site = "none"
    /\ sev' = [sev EXCEPT !.site = "store_event",
                          !.severity = store_event_severity(sev.peak)]
    /\ UNCHANGED <<core_vars, review, mgr, rb, ing, inf, ws, clips, sc, db, shut, rtsp, mj, lz, rec>>

SpecSeverity ==
    /\ InitFrom({[AuxDefault EXCEPT !.sev = x] :
                    x \in {SevIdle(p) : p \in 0..MaxPeak}})
    /\ [][\/ RepositorySeverity
          \/ DetectorSeverity
          \/ StoreEventSeverity]_vars

\* ------------------------------------------- event review (SpecReview)
\* EventUpdateRequest.reviewed_by / notes as the routes pass them on.
Reviewers == {"None", "alice", "bob"}

Notes == {"None", "seen"}

\* StreamManager.update_event_status: the UPDATE on the row, whatever its
\* current status; reviewed_by and notes are written only when given.
update_event_status(rows, e, status, reviewed_by, notes) ==
    [rows EXCEPT ![e] = [status |-> status,
                         reviewed_by |-> IF reviewed_by # "None" THEN reviewed_by
                                         ELSE @.reviewed_by,
                         notes |-> IF notes # "None" THEN notes ELSE @.notes]]

\* POST /events/{event_id}/confirm
confirm_event(e, reviewed_by, notes) ==
    /\ review' = update_event_status(review, e, "CONFIRMED", reviewed_by, notes)
    /\ UNCHANGED <<core_vars, sev, mgr, rb, ing, inf, ws, clips, sc, db, shut, rtsp, mj, lz, rec>>

\* POST /events/{event_id}/dismiss
dismiss_event(e, reviewed_by, notes) ==
    /\ review' = update_event_status(review, e, "DISMISSED", reviewed_by, notes)
    /\ UNCHANGED <<core_vars, sev, mgr, rb, ing, inf, ws, clips, sc, db, shut, rtsp, mj, lz, rec>>

\* POST /events/{event_id}/action-executed (notes default without a body)
action_executed(e, reviewed_by, notes) ==
    /\ review' = update_event_status(review, e, "ACTION_EXECUTED", reviewed_by, notes)
    /\ UNCHANGED <<core_vars, sev, mgr, rb, ing, inf, ws, clips, sc, db, shut, rtsp, mj, lz, rec>>

\* POST /events/{event_id}/no-action-required (notes default without a body)
no_action_required(e, reviewed_by, notes) ==
    /\ review' = update_event_status(review, e, "NO_ACTION_REQUIRED", reviewed_by, notes)
    /\ UNCHANGED <<core_vars, sev, mgr, rb, ing, inf, ws, clips, sc, db, shut, rtsp, mj, lz, rec>>

SpecReview ==
    /\ Init
    /\ [][\/ \E e \in (1..MaxReviewEvents), r \in Reviewers, n \in Notes : confirm_event(e, r, n)
          \/ \E e \in (1..MaxReviewEvents), r \in Reviewers, n \in Notes : dismiss_event(e, r, n)
          \/ \E e \in (1..MaxReviewEvents), r \in Reviewers,
                n \in Notes \cup {"Action executed by user"} : action_executed(e, r, n)
          \/ \E e \in (1..MaxReviewEvents), r \in Reviewers,
                n \in Notes \cup {"No action required"} : no_action_required(e, r, n)]_vars

\* ------------------------------- ProductionStreamManager (SpecManager)
graph_is_running(g) == mgr.graphs[g] \in {"running", "stopping"}

\* start_stream from "managed = self.streams[stream_id]" to its return:
\* an is_running graph is left alone, any other is started.
start_managed(graphs, g) ==
    IF graphs[g] \in {"running", "stopping"} THEN graphs
    ELSE [graphs EXCEPT ![g] = "running"]

\* start_stream up to its first suspension: an id that is not in the table
\* awaits StreamRepository.get_by_id, a loaded one runs to the end.
start_stream(c) ==
    /\ mgr.calls[c].pc = "idle"
    /\ IF mgr.streams = 0
       THEN mgr' = [mgr EXCEPT !.calls[c].pc = "get_by_id"]
       ELSE mgr' = [mgr EXCEPT !.graphs = start_managed(@, mgr.streams)]
    /\ UNCHANGED <<core_vars, sev, review, rb, ing, inf, ws, clips, sc, db, shut, rtsp, mj, lz, rec>>

\* start_stream after get_by_id: builds a ManagedStream, stores it under
\* the id whatever the table holds by now, and starts it.
start_stream_loaded(c) ==
    /\ mgr.calls[c].pc = "get_by_id"
    /\ \E g \in (1..MaxGraphs) :
          /\ mgr.graphs[g] = "none"
          /\ \A h \in (1..MaxGraphs) : h < g => mgr.graphs[h] # "none"
          /\ mgr' = [mgr EXCEPT !.streams = g,
                                !.graphs[g] = "running",
                                !.calls[c] = IdleCall]
    /\ UNCHANGED <<core_vars, sev, review, rb, ing, inf, ws, clips, sc, db, shut, rtsp, mj, lz, rec>>

\* stop_stream up to "await managed.inference_task": a graph whose task
\* was never created, or is already done, is stopped without suspending.
stop_stream(c) ==
    /\ mgr.calls[c].pc = "idle"
    /\ LET g == mgr.streams IN
          mgr' = IF g = 0 THEN mgr
                 ELSE IF mgr.graphs[g] \in {"running", "stopping"}
                      THEN [mgr EXCEPT !.graphs[g] = "stopping",
                                       !.calls[c] = [pc |-> "await_task", managed |-> g]]
                      ELSE [mgr EXCEPT !.graphs[g] = "stopped"]
    /\ UNCHANGED <<core_vars, sev, review, rb, ing, inf, ws, clips, sc, db, shut, rtsp, mj, lz, rec>>

\* The cancelled inference task ends: every stop_stream awaiting it resumes
\* in the same loop iteration, stops the ingestion and clears is_running.
inference_task_cancelled(g) ==
    /\ mgr.graphs[g] = "stopping"
    /\ mgr' = [mgr EXCEPT !.graphs[g] = "stopped",
                          !.calls = [c \in (1..MaxCalls) |->
                                        IF @[c].pc = "await_task" /\ @[c].managed = g
                                        THEN IdleCall ELSE @[c]]]
    /\ UNCHANGED <<core_vars, sev, review, rb, ing, inf, ws, clips, sc, db, shut, rtsp, mj, lz, rec>>

\* The stream is in the database; add_stream may have loaded it already.
SpecManager ==
    /\ InitFrom({[AuxDefault EXCEPT !.mgr = x] :
                    x \in {IdleManager(0), IdleManager(1)}})
    /\ [][\/ \E c \in (1..MaxCalls) : start_stream(c)
          \/ \E c \in (1..MaxCalls) : start_stream_loaded(c)
          \/ \E c \in (1..MaxCalls) : stop_stream(c)
          \/ \E g \in (1..MaxGraphs) : inference_task_cancelled(g)]_vars

\* ------------------------------------- RingBuffer / FrameBuffer (SpecBuffer)
\* deque(maxlen=max_size).append
evict_two(buffer, packet) ==
    IF Len(buffer) < max_size THEN Append(buffer, packet)
    ELSE Append(SubSeq(buffer, 3, Len(buffer)), packet)

deque_append(buffer, packet) ==
    IF Len(buffer) < max_size THEN Append(buffer, packet)
    ELSE Append(Tail(buffer), packet)

\* RingBuffer.get_window(seconds, fps): list(self.buffer)[-int(seconds * fps):]
RingBuffer_get_window(buffer, seconds, fps) == LastN(buffer, seconds * fps)

\* RingBuffer.get_latest(n): list(self.buffer)[-n:]
RingBuffer_get_latest(buffer, n) == LastN(buffer, n)

\* FrameBuffer.get_latest_consecutive(count)
get_latest_consecutive(buffer, count) ==
    IF Len(buffer) <= count THEN buffer ELSE LastN(buffer, count)

\* The reader's loop body for one frame that passes the rate control
\* (at least 1/fps since the last processed frame): stamp, number, push.
push ==
    /\ Len(rb.pushed) < MaxPushes
    /\ IF rb.pushed = <<>> THEN TRUE
       ELSE (rb.now - rb.pushed[Len(rb.pushed)].timestamp) * window_fps >= 1
    /\ LET packet == [frame_number |-> Len(rb.pushed) + 1, timestamp |-> rb.now] IN
          rb' = [rb EXCEPT !.buffer = deque_append(@, packet),
                           !.pushed = Append(@, packet),
                           !.query = NoQuery]
    /\ UNCHANGED <<core_vars, sev, review, mgr, ing, inf, ws, clips, sc, db, shut, rtsp, mj, lz, rec>>

\* Time passes without a frame (slow source, disconnect gap).
BufferTick ==
    /\ rb.now < MaxNow
    /\ rb' = [rb EXCEPT !.now = @ + 1, !.query = NoQuery]
    /\ UNCHANGED <<core_vars, sev, review, mgr, ing, inf, ws, clips, sc, db, shut, rtsp, mj, lz, rec>>

get_window_call(seconds) ==
    /\ rb' = [rb EXCEPT !.query = [op |-> "get_window", arg |-> seconds,
                                   result |-> RingBuffer_get_window(rb.buffer, seconds, window_fps)]]
    /\ UNCHANGED <<core_vars, sev, review, mgr, ing, inf, ws, clips, sc, db, shut, rtsp, mj, lz, rec>>

get_latest_call(n) ==
    /\ rb' = [rb EXCEPT !.query = [op |-> "get_latest", arg |-> n,
                                   result |-> RingBuffer_get_latest(rb.buffer, n)]]
    /\ UNCHANGED <<core_vars, sev, review, mgr, ing, inf, ws, clips, sc, db, shut, rtsp, mj, lz, rec>>

get_latest_consecutive_call(count) ==
    /\ rb' = [rb EXCEPT !.query = [op |-> "get_latest_consecutive", arg |-> count,
                                   result |-> get_latest_consecutive(rb.buffer, count)]]
    /\ UNCHANGED <<core_vars, sev, review, mgr, ing, inf, ws, clips, sc, db, shut, rtsp, mj, lz, rec>>

SpecBuffer ==
    /\ Init
    /\ [][\/ push
          \/ BufferTick
          \/ \E seconds \in 0..MaxSeconds : get_window_call(seconds)
          \/ \E n \in 0..MaxCount : get_latest_call(n)
          \/ \E count \in 0..MaxCount : get_latest_consecutive_call(count)]_vars

\* ------------------------------------------ FFmpegIngestion (SpecIngestion)
\* start(): returns at once when is_running; otherwise sets the flag,
\* clears reconnect_count and starts a new reader thread.
ingestion_start(t) ==
    /\ ~ing.is_running
    /\ ing.threads[t] = "none"
    /\ \A u \in (1..MaxThreads) : u < t => ing.threads[u] # "none"
    /\ ing' = [ing EXCEPT !.is_running = TRUE, !.reconnect_count = 0,
                          !.attempts = 0, !.threads[t] = "loop"]
    /\ UNCHANGED <<core_vars, sev, review, mgr, rb, inf, ws, clips, sc, db, shut, rtsp, mj, lz, rec>>

\* stop(): clears the flag, terminates the decoder, reports STOPPED; it
\* does not join the reader thread.
ingestion_stop ==
    /\ ing' = [ing EXCEPT !.is_running = FALSE, !.process = 0, !.status = "stopped"]
    /\ UNCHANGED <<core_vars, sev, review, mgr, rb, inf, ws, clips, sc, db, shut, rtsp, mj, lz, rec>>

\* _reader_loop: "while self.is_running", then _connect_and_read reports
\* CONNECTING.
reader_loop(t) ==
    /\ ing.threads[t] = "loop"
    /\ IF ing.is_running
       THEN ing' = [ing EXCEPT !.status = "connecting", !.threads[t] = "popen"]
       ELSE ing' = [ing EXCEPT !.threads[t] = "none"]
    /\ UNCHANGED <<core_vars, sev, review, mgr, rb, inf, ws, clips, sc, db, shut, rtsp, mj, lz, rec>>

\* self.process refers to a decoder no thread has seen end.
decoder_running ==
    /\ ing.process # 0
    /\ \A u \in (1..MaxThreads) : ing.threads[u] # "eof"

\* subprocess.Popen: on success self.process is assigned and CONNECTED
\* reported; an exception is caught in _reader_loop, which reports ERROR.
reader_popen(t, ok) ==
    /\ ing.threads[t] = "popen"
    /\ IF ok
       THEN ing' = [ing EXCEPT !.process = t, !.status = "connected",
                               !.reconnect_count = 0, !.threads[t] = "reading",
                               !.orphans = IF decoder_running THEN Min2(@ + 1, MaxThreads)
                                           ELSE @]
       ELSE ing' = [ing EXCEPT !.status = "error", !.threads[t] = "after"]
    /\ UNCHANGED <<core_vars, sev, review, mgr, rb, inf, ws, clips, sc, db, shut, rtsp, mj, lz, rec>>

\* One turn of "while self.is_running and self.process": the loop is left
\* (cleanup, DISCONNECTED), or a frame that passes the rate control is
\* counted, or the read comes back short.
reader_read(t, outcome) ==
    /\ ing.threads[t] = "reading"
    /\ IF ~(ing.is_running /\ ing.process # 0)
       THEN ing' = [ing EXCEPT !.process = 0, !.status = "disconnected",
                               !.threads[t] = "after"]
       ELSE IF outcome = "frame"
            THEN /\ ing.frame_count < MaxFrames
                 /\ ing' = [ing EXCEPT !.frame_count = @ + 1, !.attempts = 0,
                                       !.threads[t] = "counted"]
            ELSE ing' = [ing EXCEPT !.threads[t] = "eof"]
    /\ UNCHANGED <<core_vars, sev, review, mgr, rb, inf, ws, clips, sc, db, shut, rtsp, mj, lz, rec>>

\* FramePacket(frame_number=self.frame_count) and ring_buffer.push
reader_push(t) ==
    /\ ing.threads[t] = "counted"
    /\ ing' = [ing EXCEPT !.pushed = Append(@, ing.frame_count), !.threads[t] = "reading"]
    /\ UNCHANGED <<core_vars, sev, review, mgr, rb, inf, ws, clips, sc, db, shut, rtsp, mj, lz, rec>>

\* After a short read: self.process.stderr.read() raises when stop() has
\* cleared self.process (ERROR from _reader_loop); otherwise break,
\* cleanup and DISCONNECTED.
reader_eof(t) ==
    /\ ing.threads[t] = "eof"
    /\ IF ing.process = 0
       THEN ing' = [ing EXCEPT !.status = "error", !.threads[t] = "after"]
       ELSE ing' = [ing EXCEPT !.process = 0, !.status = "disconnected",
                               !.threads[t] = "after"]
    /\ UNCHANGED <<core_vars, sev, review, mgr, rb, inf, ws, clips, sc, db, shut, rtsp, mj, lz, rec>>

\* A reader thread that leaves after any disconnect.
reader_after_gives_up(t) ==
    /\ ing.threads[t] = "after"
    /\ ing' = [ing EXCEPT !.threads[t] = "none"]
    /\ UNCHANGED <<core_vars, sev, review, mgr, rb, inf, ws, clips, sc, db, shut, rtsp, mj, lz, rec>>

\* _reader_loop after _connect_and_read: leave when stopped or when the
\* reconnect budget is used up (ERROR), else RECONNECTING and sleep.
reader_after(t) ==
    /\ ing.threads[t] = "after"
    /\ IF ~ing.is_running
       THEN ing' = [ing EXCEPT !.threads[t] = "none"]
       ELSE IF ing.max_reconnect_attempts > 0
               /\ ing.reconnect_count >= ing.max_reconnect_attempts
            THEN ing' = [ing EXCEPT !.status = "error", !.threads[t] = "none"]
            ELSE ing' = [ing EXCEPT !.reconnect_count = Min2(@ + 1, MaxReconnects),
                                    !.attempts = Min2(@ + 1, MaxReconnects),
                                    !.status = "reconnecting",
                                    !.threads[t] = "sleep"]
    /\ UNCHANGED <<core_vars, sev, review, mgr, rb, inf, ws, clips, sc, db, shut, rtsp, mj, lz, rec>>

\* time.sleep(reconnect_delay) returns
reader_wake(t) ==
    /\ ing.threads[t] = "sleep"
    /\ ing' = [ing EXCEPT !.threads[t] = "loop"]
    /\ UNCHANGED <<core_vars, sev, review, mgr, rb, inf, ws, clips, sc, db, shut, rtsp, mj, lz, rec>>

SpecIngestion ==
    /\ InitFrom({[AuxDefault EXCEPT !.ing = x] :
                    x \in {NewIngestion(-1), NewIngestion(1)}})
    /\ [][\/ \E t \in (1..MaxThreads) : ingestion_start(t)
          \/ ingestion_stop
          \/ \E t \in (1..MaxThreads) : reader_loop(t)
          \/ \E t \in (1..MaxThreads), ok \in BOOLEAN : reader_popen(t, ok)
          \/ \E t \in (1..MaxThreads), outcome \in {"frame", "eof"} : reader_read(t, outcome)
          \/ \E t \in (1..MaxThreads) : reader_push(t)
          \/ \E t \in (1..MaxThreads) : reader_eof(t)
          \/ \E t \in (1..MaxThreads) : reader_after(t)
          \/ \E t \in (1..MaxThreads) : reader_wake(t)]_vars

\* A reader thread that is not blocked in a read keeps running: the test
\* after _connect_and_read, time.sleep and the loop test all return.
SpecIngestionLive ==
    /\ SpecIngestion
    /\ \A t \in (1..MaxThreads) :
          /\ WF_vars(reader_after(t))
          /\ WF_vars(reader_wake(t))
          /\ WF_vars(reader_loop(t))

\* ------------------------------------------ inference loops (SpecInference)
\* The reader pushes one more packet.
frame_pushed ==
    /\ inf.is_connected
    /\ inf.newest < MaxFrames
    /\ inf' = [inf EXCEPT !.newest = @ + 1]
    /\ UNCHANGED <<core_vars, sev, review, mgr, rb, ing, ws, clips, sc, db, shut, rtsp, mj, lz, rec>>

\* The source disconnects or reconnects; the buffer keeps its packets.
connection_changes ==
    /\ inf' = [inf EXCEPT !.is_connected = ~@]
    /\ UNCHANGED <<core_vars, sev, review, mgr, rb, ing, ws, clips, sc, db, shut, rtsp, mj, lz, rec>>

\* core/stream_manager.py InferencePipeline._run_inference, one cycle of
\* the loop in start(): with at least sample_frames packets buffered the
\* sampled window (which ends at the newest packet) is sent to the ML
\* service, and a 200 answer is emitted with that window_end.
run_inference(ok) ==
    /\ Len(inf.emitted) < MaxEmitted
    /\ inf.newest >= sample_frames
    /\ ok
    /\ inf' = [inf EXCEPT !.emitted = Append(@, inf.newest)]
    /\ UNCHANGED <<core_vars, sev, review, mgr, rb, ing, ws, clips, sc, db, shut, rtsp, mj, lz, rec>>

\* FrameBuffer.get_latest_consecutive(count) on a buffer of n packets: the
\* number of packets it returns.
get_consecutive_frames(n, count) == IF n <= count THEN n ELSE count

\* A test that would pass a window one frame short.
too_few_frames_lenient(frames) == frames < sample_frames - 1

\* _inference_loop: if len(frames) < required_frames
too_few_frames(frames) == frames < sample_frames

\* A loop that would hand on a result for a failed classifier call.
inference_loop_emits_failure(ok) ==
    /\ Len(inf.results_emitted) < MaxEmitted
    /\ inf.is_connected
    /\ ~too_few_frames(get_consecutive_frames(inf.newest, sample_frames))
    /\ inf.newest # inf.last_frame_number
    /\ inf' = [inf EXCEPT !.last_frame_number = inf.newest,
                          !.results_emitted = Append(@, inf.newest),
                          !.failed = IF ok THEN @ ELSE Append(@, inf.newest)]
    /\ UNCHANGED <<core_vars, sev, review, mgr, rb, ing, ws, clips, sc, db, shut, rtsp, mj, lz, rec>>

\* inference/pipeline.py InferencePipeline._inference_loop, one turn that
\* gets past its three "continue" tests: connected, enough frames, and a
\* newest frame other than the last one classified. ok = FALSE: the
\* classifier call raised (a timeout raises RuntimeError); _run_inference
\* logs, returns None, on_result is not called and the loop sleeps and
\* takes its next turn.
inference_loop(ok) ==
    /\ Len(inf.results_emitted) < MaxEmitted
    /\ inf.is_connected
    /\ ~too_few_frames(get_consecutive_frames(inf.newest, sample_frames))
    /\ inf.newest # inf.last_frame_number
    /\ inf' = [inf EXCEPT !.last_frame_number = inf.newest,
                          !.results_emitted = IF ok THEN Append(@, inf.newest) ELSE @,
                          !.failed = IF ok THEN @ ELSE Append(@, inf.newest)]
    /\ UNCHANGED <<core_vars, sev, review, mgr, rb, ing, ws, clips, sc, db, shut, rtsp, mj, lz, rec>>

SpecInference ==
    /\ Init
    /\ [][\/ frame_pushed
          \/ connection_changes
          \/ \E ok \in BOOLEAN : run_inference(ok)
          \/ \E ok \in BOOLEAN : inference_loop(ok)]_vars

\* ------------------------------------------ WebSocket broadcast (SpecBroadcast)
Connected(conns) == {conns[i] : i \in 1..Len(conns)}

\* active_connections.remove(connection), ValueError ignored
RemoveConnection(conns, c) ==
    SelectSeq(conns, LAMBDA x : x # c)

\* websocket_endpoint: accept, then active_connections.append(websocket)
websocket_endpoint(c) ==
    /\ c \notin ws.accepted
    /\ ws' = [ws EXCEPT !.active_connections = Append(@, c),
                        !.accepted = @ \cup {c}]
    /\ UNCHANGED <<core_vars, sev, review, mgr, rb, ing, inf, clips, sc, db, shut, rtsp, mj, lz, rec>>

\* broadcast_message up to its first await: the list is copied and the
\* first send_json is awaited.
broadcast_message(m) ==
    /\ ws.calls[m].pc = "idle"
    /\ ws' = [ws EXCEPT !.calls[m] =
                 IF ws.active_connections = <<>>
                 THEN [pc |-> "done", copy |-> <<>>, pos |-> 0]
                 ELSE [pc |-> "sending", copy |-> ws.active_connections, pos |-> 1]]
    /\ UNCHANGED <<core_vars, sev, review, mgr, rb, ing, inf, clips, sc, db, shut, rtsp, mj, lz, rec>>

\* The awaited send_json returns or raises (the connection is removed), and
\* the loop goes on to the next connection of the copy. The send to the
\* slow subscriber does neither.
send_json(m, ok) ==
    /\ ws.calls[m].pc = "sending"
    /\ LET call == ws.calls[m]
           c == call.copy[call.pos]
       IN /\ c # ws.slow
          /\ ws' = [ws EXCEPT
                       !.delivered[c] = IF ok THEN @ \cup {m} ELSE @,
                       !.active_connections = IF ok THEN @ ELSE RemoveConnection(@, c),
                       !.calls[m] = IF call.pos = Len(call.copy)
                                    THEN [pc |-> "done", copy |-> <<>>, pos |-> 0]
                                    ELSE [call EXCEPT !.pos = @ + 1]]
    /\ UNCHANGED <<core_vars, sev, review, mgr, rb, ing, inf, clips, sc, db, shut, rtsp, mj, lz, rec>>

\* A send to a subscriber other than the slow one completes.
SpecBroadcast ==
    /\ InitFrom({[AuxDefault EXCEPT !.ws = x] :
                    x \in {NoSubscribers(slow) : slow \in (1..MaxSubscribers) \cup {0}}})
    /\ [][\/ \E c \in (1..MaxSubscribers) : websocket_endpoint(c)
          \/ \E m \in (1..MaxMessages) : broadcast_message(m)
          \/ \E m \in (1..MaxMessages), ok \in BOOLEAN : send_json(m, ok)]_vars
    /\ \A m \in (1..MaxMessages) : WF_vars(\E ok \in BOOLEAN : send_json(m, ok))

\* ------------------------------------------ clips at finalization (SpecClips)
\* ClipRecorder.save_clip: the name of the clip file of event e.
ClipFile(e) == [event |-> e, kind |-> "mp4"]

\* ClipRecorder.save_thumbnail: the name of the thumbnail file of event e.
ThumbFile(e) == [event |-> e, kind |-> "jpg"]

\* ClipRecorder.save_clip with n frames. The VideoWriter creates the file
\* when it is opened; an exception raised after `written` frames (written
\* < n) is caught, logged, and None is returned with the file left as it
\* is. written = n is the success path: release, then the path is returned.
\* The result is <<returned path, files, partial files>>.
save_clip(e, n, opened, written) ==
    IF n = 0 THEN <<None, {}, {}>>
    ELSE IF ~opened THEN <<None, {}, {}>>
    ELSE IF written < n THEN <<None, {ClipFile(e)}, {ClipFile(e)}>>
    ELSE <<e, {ClipFile(e)}, {}>>

\* ClipRecorder.save_thumbnail: cv2.imwrite, the path on return, None if it
\* raised.
save_thumbnail(e, ok) ==
    IF ok THEN <<e, {ThumbFile(e)}>> ELSE <<None, {}>>

\* EventDetectionEngine._finalize_event for event e with n clip frames,
\* from "# Save clip" to the repository update: save_clip, clip_duration
\* when it returned a path, save_thumbnail whatever save_clip returned,
\* then EventRepository.finalize_event with the three values.
finalize_event_clip(e, end_time, n, opened, written, thumb_ok) ==
    /\ clips.rows[e].status = "ACTIVE"
    /\ \A d \in (1..MaxClipEvents) : d < e => clips.rows[d].status # "ACTIVE"
    /\ LET clip == save_clip(e, n, opened, written)
           thumb == IF n > 0 THEN save_thumbnail(e, thumb_ok) ELSE <<None, {}>>
           clip_path == clip[1]
           clip_duration == IF clip_path # None THEN n \div target_fps ELSE None
       IN clips' = [clips EXCEPT
                       !.files = @ \cup clip[2] \cup thumb[2],
                       !.partial = @ \cup clip[3],
                       !.rows[e] = [end_time |-> end_time,
                                    status |-> "PENDING",
                                    clip_path |-> clip_path,
                                    clip_duration |-> clip_duration,
                                    thumbnail_path |-> thumb[1],
                                    encoding_failed |-> n > 0 /\ clip_path = None]]
    /\ UNCHANGED <<core_vars, sev, review, mgr, rb, ing, inf, ws, sc, db, shut, rtsp, mj, lz, rec>>

SpecClips ==
    /\ Init
    /\ [][\E e \in (1..MaxClipEvents), end_time \in 0..MaxTime, n \in 0..MaxFrames,
             opened \in BOOLEAN, thumb_ok \in BOOLEAN :
              \E written \in 0..n :
                  finalize_event_clip(e, end_time, n, opened, written, thumb_ok)]_vars

\* ------------------------------------------ classifier outputs (SpecScores)
\* EventDetectionEngine.process_score on DetectorState d with
\* score.violence_score = v: the state it leaves. cooled: the score's
\* timestamp has reached cooldown_until.
process_score(d, v, cooled) ==
    LET violent == float_ge(v, threshold)
        below_end == float_lt(v, end_threshold)
        c == [d EXCEPT !.processed = @ + 1, !.last = v]
    IN IF d.phase = "COOLDOWN" /\ ~cooled THEN c
       ELSE IF d.phase \in {"IDLE", "COOLDOWN"}
       THEN IF violent
            THEN [c EXCEPT !.phase = "TRIGGERED", !.consecutive_violent_count = 1]
            ELSE [c EXCEPT !.phase = "IDLE"]
       ELSE IF d.phase = "TRIGGERED"
       THEN IF violent
            THEN IF d.consecutive_violent_count + 1 >= d.min_consecutive
                 THEN [c EXCEPT !.consecutive_violent_count = @ + 1,
                                !.phase = "ACTIVE", !.event_scores = <<v>>]
                 ELSE [c EXCEPT !.consecutive_violent_count = @ + 1]
            ELSE [c EXCEPT !.consecutive_violent_count = 0, !.phase = "IDLE"]
       ELSE IF d.phase = "ACTIVE"
       THEN [c EXCEPT !.event_scores = Append(@, v),
                      !.phase = IF below_end THEN "ENDING" ELSE "ACTIVE"]
       ELSE IF violent
            THEN [c EXCEPT !.phase = "ACTIVE", !.event_scores = Append(@, v)]
            ELSE c

\* InferencePipeline._run_inference hands result_data["violence_score"] on
\* as it is, and the detector processes it.
score_arrives(v, cooled) ==
    /\ sc.processed < MaxScores
    /\ sc' = process_score(sc, v, cooled)
    /\ UNCHANGED <<core_vars, sev, review, mgr, rb, ing, inf, ws, clips, db, shut, rtsp, mj, lz, rec>>

\* _complete_event_ending after its sleep, still ENDING: _finalize_event,
\* with the statistics EventRepository.finalize_event computes from
\* scores, then cooldown and reset_event.
complete_event_ending ==
    /\ sc.phase = "ENDING"
    /\ sc' = [sc EXCEPT
                 !.rows = Append(@, [max_confidence |-> py_max(sc.event_scores),
                                     sum_confidence |-> py_sum(sc.event_scores),
                                     n_scores |-> Len(sc.event_scores),
                                     min_confidence |-> py_min(sc.event_scores)]),
                 !.phase = "COOLDOWN",
                 !.event_scores = <<>>]
    /\ UNCHANGED <<core_vars, sev, review, mgr, rb, ing, inf, ws, clips, db, shut, rtsp, mj, lz, rec>>

SpecScores ==
    /\ InitFrom({[AuxDefault EXCEPT !.sc = x] :
                    x \in {IdleDetector(m) : m \in 1..MaxMinConsecutive}})
    /\ [][\/ \E v \in RawScores, cooled \in BOOLEAN : score_arrives(v, cooled)
          \/ complete_event_ending]_vars

\* ------------------------------------------ repository start-up (SpecInitDb)
\* A test that would let the last attempt sleep and fall out of the loop.
retries_remain_always(attempt) == attempt < max_retries

\* init_db: if attempt < max_retries - 1
retries_remain(attempt) == attempt < max_retries - 1

\* ProductionStreamManager.initialize up to the first attempt of init_db:
\* for attempt in range(max_retries), first turn.
initialize ==
    /\ db.pc = "idle"
    /\ db' = [db EXCEPT !.pc = "connecting"]
    /\ UNCHANGED <<core_vars, sev, review, mgr, rb, ing, inf, ws, clips, sc, shut, rtsp, mj, lz, rec>>

\* One turn of init_db's loop: the engine is created and create_all is
\* awaited, which takes `took` seconds. ok: init_db returns, and
\* initialize goes on and sets _is_initialized. Otherwise the exception is
\* caught: with retries remaining the loop sleeps, else it re-raises and
\* initialize is left by the exception.
create_all(ok, took) ==
    /\ db.pc = "connecting"
    /\ LET done == db.now + took
           logged == Append(db.log, [start |-> db.now, end |-> done, ok |-> ok])
       IN db' = [db EXCEPT
                    !.now = done,
                    !.log = logged,
                    !.engine = ok,
                    !.is_initialized = ok,
                    !.pc = IF ok THEN "returned"
                           ELSE IF retries_remain(db.attempt) THEN "sleeping"
                           ELSE "raised"]
    /\ UNCHANGED <<core_vars, sev, review, mgr, rb, ing, inf, ws, clips, sc, shut, rtsp, mj, lz, rec>>

\* await asyncio.sleep(retry_delay) returns and the for loop takes its
\* next value; a loop that has run out of values ends, and init_db returns
\* None with no engine.
retry_sleep ==
    /\ db.pc = "sleeping"
    /\ db' = [db EXCEPT
                 !.now = @ + retry_delay,
                 !.attempt = @ + 1,
                 !.pc = IF db.attempt + 1 < max_retries THEN "connecting"
                        ELSE "returned",
                 !.is_initialized = ~(db.attempt + 1 < max_retries)]
    /\ UNCHANGED <<core_vars, sev, review, mgr, rb, ing, inf, ws, clips, sc, shut, rtsp, mj, lz, rec>>

SpecInitDb ==
    /\ Init
    /\ [][\/ initialize
          \/ \E ok \in BOOLEAN, took \in 0..MaxConnectTime : create_all(ok, took)
          \/ retry_sleep]_vars

\* ------------------------------------------ graceful shutdown (SpecShutdown)
\* ProductionStreamManager.shutdown is called: the loop over
\* list(self.streams.keys()) reaches its first stop_stream.
shutdown_begins ==
    /\ shut.pc = "running"
    /\ shut' = [shut EXCEPT
                   !.pc = "stop_stream", !.stream = 1,
                   !.open_at_shutdown =
                       {s \in (1..MaxStreams) : shut.phases[s] \in {"ACTIVE", "ENDING"}}]
    /\ UNCHANGED <<core_vars, sev, review, mgr, rb, ing, inf, ws, clips, sc, db, rtsp, mj, lz, rec>>

\* stop_stream(stream) up to `await StreamRepository.update_status`:
\* force_end_event creates the finalize task without awaiting it, the
\* inference task is cancelled and awaited (the finalize task runs up to
\* its repository await meanwhile), the ingestion is stopped.
shutdown_stop_stream ==
    /\ shut.pc = "stop_stream"
    /\ shut' = [shut EXCEPT
                   !.pc = "update_status",
                   !.finalize[shut.stream] =
                       IF shut.phases[shut.stream] \in {"ACTIVE", "ENDING"}
                       THEN "in_repository" ELSE @]
    /\ UNCHANGED <<core_vars, sev, review, mgr, rb, ing, inf, ws, clips, sc, db, rtsp, mj, lz, rec>>

\* update_status and the stream_stopped broadcast return; the loop takes
\* the next stream, or is over and close_db is awaited.
stream_status_updated ==
    /\ shut.pc = "update_status"
    /\ shut' = [shut EXCEPT
                   !.pc = IF shut.stream < MaxStreams THEN "stop_stream" ELSE "close_db",
                   !.stream = IF shut.stream < MaxStreams THEN @ + 1 ELSE @]
    /\ UNCHANGED <<core_vars, sev, review, mgr, rb, ing, inf, ws, clips, sc, db, rtsp, mj, lz, rec>>

\* close_db: _engine.dispose(); shutdown() logs and returns.
close_db ==
    /\ shut.pc = "close_db"
    /\ shut' = [shut EXCEPT !.pc = "returned", !.engine_disposed = TRUE]
    /\ UNCHANGED <<core_vars, sev, review, mgr, rb, ing, inf, ws, clips, sc, db, rtsp, mj, lz, rec>>

\* EventRepository.finalize_event of a forced finalize task returns (the
\* row is updated and the detector enters cooldown) or raises.
forced_finalize_done(s, ok) ==
    /\ shut.finalize[s] = "in_repository"
    /\ shut' = [shut EXCEPT
                   !.finalize[s] = "done",
                   !.finalized = IF ok THEN @ \cup {s} ELSE @,
                   !.phases[s] = "COOLDOWN"]
    /\ UNCHANGED <<core_vars, sev, review, mgr, rb, ing, inf, ws, clips, sc, db, rtsp, mj, lz, rec>>

SpecShutdown ==
    /\ InitFrom({[AuxDefault EXCEPT !.shut = x] :
                    x \in {RunningStreams(p) : p \in [(1..MaxStreams) -> {"IDLE", "ACTIVE", "ENDING"}]}})
    /\ [][\/ shutdown_begins
          \/ shutdown_stop_stream
          \/ stream_status_updated
          \/ close_db
          \/ \E s \in (1..MaxStreams), ok \in BOOLEAN : forced_finalize_done(s, ok)]_vars

\* ===================================================== SimpleRTSPStream
\* main.py: the run flag and the score smoother of one stream. Scores are
\* percentages.

\* SimpleRTSPStream.start: returns if already running, else sets the flag
\* and starts the capture and inference threads.
stream_start ==
    /\ ~rtsp.is_running
    /\ rtsp' = [rtsp EXCEPT !.is_running = TRUE]
    /\ UNCHANGED <<core_vars, sev, review, mgr, rb, ing, inf, ws, clips, sc, db, shut, mj, lz, rec>>

\* SimpleRTSPStream.stop: clears the flag, finalizes a pending event, joins
\* the threads and releases the capture. It assigns neither _recent_scores
\* nor _consecutive_high_count.
stream_stop ==
    /\ rtsp' = [rtsp EXCEPT !.is_running = FALSE]
    /\ UNCHANGED <<core_vars, sev, review, mgr, rb, ing, inf, ws, clips, sc, db, shut, mj, lz, rec>>

\* One iteration of _inference_loop whose prediction has a result: the raw
\* score enters the deque (maxlen PREDICTION_SMOOTHING_WINDOW), is_violent
\* compares the mean of the deque with VIOLENCE_THRESHOLD, and the
\* consecutive count follows the raw score.
stream_inference(raw_score) ==
    /\ rtsp.is_running
    /\ rtsp.predictions < MaxPredictions
    /\ LET window == IF Len(rtsp.recent_scores) < PREDICTION_SMOOTHING_WINDOW
                     THEN Append(rtsp.recent_scores, raw_score)
                     ELSE Append(Tail(rtsp.recent_scores), raw_score)
       IN rtsp' = [rtsp EXCEPT
                      !.recent_scores = window,
                      !.is_violent = SumSeq(window) >= VIOLENCE_THRESHOLD * Len(window),
                      !.consecutive_high_count =
                          IF raw_score >= VIOLENCE_ALERT_THRESHOLD THEN @ + 1 ELSE 0,
                      !.predictions = @ + 1]
    /\ UNCHANGED <<core_vars, sev, review, mgr, rb, ing, inf, ws, clips, sc, db, shut, mj, lz, rec>>

SpecStream ==
    /\ Init
    /\ [][\/ stream_start
          \/ stream_stop
          \/ \E raw_score \in {20, 60, 95} : stream_inference(raw_score)]_vars

\* ======================================================== MJPEG preview
\* GET /streams/{id}/mjpeg in app/api/routes.py and in main.py, with the
\* streams dictionary of the manager each one reads.

\* add_stream: a new id enters the manager's streams.
preview_add_stream ==
    /\ mj.next_id <= MaxStreams
    /\ mj' = [mj EXCEPT !.streams = @ \cup {mj.next_id}, !.next_id = @ + 1]
    /\ UNCHANGED <<core_vars, sev, review, mgr, rb, ing, inf, ws, clips, sc, db, shut, rtsp, lz, rec>>

\* remove_stream(id): the stream is stopped and deleted from streams.
preview_remove_stream(id) ==
    /\ id \in mj.streams
    /\ mj' = [mj EXCEPT !.streams = @ \ {id}]
    /\ UNCHANGED <<core_vars, sev, review, mgr, rb, ing, inf, ws, clips, sc, db, shut, rtsp, lz, rec>>

\* The endpoint handler: 404 if the id is not in streams, else a
\* StreamingResponse over a new generator.
mjpeg_request(w, id) ==
    /\ mj.workers[w].pc = "none"
    /\ mj' = [mj EXCEPT
                 !.workers[w].pc = IF id \in mj.streams THEN "streaming" ELSE "not_found",
                 !.workers[w].stream_id = id]
    /\ UNCHANGED <<core_vars, sev, review, mgr, rb, ing, inf, ws, clips, sc, db, shut, rtsp, lz, rec>>

\* routes.py generate_mjpeg, one iteration of its while True: break if the
\* id is no longer in stream_manager.streams, else a placeholder or a
\* frame is yielded (or nothing) and the generator sleeps.
generate_mjpeg(w) ==
    /\ mj.app = "routes"
    /\ mj.workers[w].pc = "streaming"
    /\ IF mj.workers[w].stream_id \notin mj.streams
       THEN mj' = [mj EXCEPT !.workers[w].pc = "done"]
       ELSE /\ mj.workers[w].iterations < MaxIterations
            /\ mj' = [mj EXCEPT !.workers[w].iterations = @ + 1]
    /\ UNCHANGED <<core_vars, sev, review, mgr, rb, ing, inf, ws, clips, sc, db, shut, rtsp, lz, rec>>

\* main.py mjpeg_stream.generate, one iteration of its while True: it reads
\* the cached JPEG of the SimpleRTSPStream object it captured, yields it if
\* it is new, and sleeps. The loop has no exit.
generate(w) ==
    /\ mj.app = "main"
    /\ mj.workers[w].pc = "streaming"
    /\ mj.workers[w].iterations < MaxIterations
    /\ mj' = [mj EXCEPT !.workers[w].iterations = @ + 1]
    /\ UNCHANGED <<core_vars, sev, review, mgr, rb, ing, inf, ws, clips, sc, db, shut, rtsp, lz, rec>>

SpecPreview ==
    /\ InitFrom({[AuxDefault EXCEPT !.mj = NoPreviews(app)] : app \in {"routes", "main"}})
    /\ [][\/ preview_add_stream
          \/ \E id \in (1..MaxStreams) : preview_remove_stream(id)
          \/ \E w \in (1..MaxWorkers), id \in (1..MaxStreams) : mjpeg_request(w, id)
          \/ \E w \in (1..MaxWorkers) : generate_mjpeg(w)
          \/ \E w \in (1..MaxWorkers) : generate(w)]_vars

\* ============================================ StreamManager lazy streams
\* app/manager.py: the two dictionaries of the manager, keyed by stream id.
\* Each operation is taken whole: the dictionaries are only assigned
\* between its awaits.

\* add_stream: the database gives the row a new id, the component graph is
\* created and stored in streams; auto_start starts it.
manager_add_stream(auto_start) ==
    /\ lz.next_id <= MaxStreams
    /\ lz' = [lz EXCEPT
                 !.streams = @ \cup {lz.next_id},
                 !.running = IF auto_start THEN @ \cup {lz.next_id} ELSE @,
                 !.next_id = @ + 1]
    /\ UNCHANGED <<core_vars, sev, review, mgr, rb, ing, inf, ws, clips, sc, db, shut, rtsp, mj, rec>>

\* start_stream with the lazy entry left in lazy_streams.
manager_start_stream_keeps_lazy(id) ==
    /\ id \in lz.lazy_streams \cup lz.streams
    /\ lz' = [lz EXCEPT
                 !.streams = @ \cup {id},
                 !.running = @ \cup {id}]
    /\ UNCHANGED <<core_vars, sev, review, mgr, rb, ing, inf, ws, clips, sc, db, shut, rtsp, mj, rec>>

\* start_stream: a lazy id not in streams gets its component graph, enters
\* streams and leaves lazy_streams; an id in neither raises ValueError;
\* ingestion and pipeline are started.
manager_start_stream(id) ==
    /\ id \in lz.lazy_streams \cup lz.streams
    /\ lz' = [lz EXCEPT
                 !.streams = @ \cup {id},
                 !.lazy_streams = IF id \in lz.lazy_streams /\ id \notin lz.streams
                                  THEN @ \ {id} ELSE @,
                 !.running = @ \cup {id}]
    /\ UNCHANGED <<core_vars, sev, review, mgr, rb, ing, inf, ws, clips, sc, db, shut, rtsp, mj, rec>>

\* stop_stream: returns if the id is not in streams, else stops pipeline
\* and ingestion; the entry stays in streams.
manager_stop_stream(id) ==
    /\ id \in lz.streams
    /\ lz' = [lz EXCEPT !.running = @ \ {id}]
    /\ UNCHANGED <<core_vars, sev, review, mgr, rb, ing, inf, ws, clips, sc, db, shut, rtsp, mj, rec>>

\* remove_stream: an id in streams is stopped and deleted; the id is also
\* deleted from lazy_streams.
manager_remove_stream(id) ==
    /\ id \in lz.lazy_streams \cup lz.streams
    /\ lz' = [lz EXCEPT
                 !.streams = @ \ {id},
                 !.lazy_streams = @ \ {id},
                 !.running = @ \ {id}]
    /\ UNCHANGED <<core_vars, sev, review, mgr, rb, ing, inf, ws, clips, sc, db, shut, rtsp, mj, rec>>

\* get_all_status: one get_stream_status per key of streams followed by
\* one per key of lazy_streams.
get_all_status ==
    /\ lz' = [lz EXCEPT
                 !.reported = [id \in (1..MaxStreams) |->
                                  (IF id \in lz.streams THEN 1 ELSE 0)
                                  + (IF id \in lz.lazy_streams THEN 1 ELSE 0)]]
    /\ UNCHANGED <<core_vars, sev, review, mgr, rb, ing, inf, ws, clips, sc, db, shut, rtsp, mj, rec>>

SpecLazy ==
    /\ InitFrom({[AuxDefault EXCEPT !.lz = LoadedManager(n)] : n \in 0..MaxLoaded})
    /\ [][\/ \E auto_start \in BOOLEAN : manager_add_stream(auto_start)
          \/ \E id \in (1..MaxStreams) : manager_start_stream(id)
          \/ \E id \in (1..MaxStreams) : manager_stop_stream(id)
          \/ \E id \in (1..MaxStreams) : manager_remove_stream(id)
          \/ get_all_status]_vars

\* ========================================================= EventRecorder
\* main.py EventRecorder: the three-phase recorder fed by the capture loop
\* (add_frame) and the inference loop (on_prediction), both under _lock.

\* time.time() advances by one second.
recorder_tick ==
    /\ rec.now < MaxNow
    /\ rec' = [rec EXCEPT !.now = @ + 1]
    /\ UNCHANGED <<core_vars, sev, review, mgr, rb, ing, inf, ws, clips, sc, db, shut, rtsp, mj, lz>>

\* add_frame(frame, now): in VIOLENCE the frame joins event_frames and,
\* when violence_start_time is set and CLIP_MAX_DURATION has passed since
\* it, _end_violence runs; in POST_BUFFER the frame joins
\* post_buffer_frames and after CLIP_AFTER_SECONDS _finalize_event resets
\* the recorder.
add_frame ==
    /\ rec.frames < MaxFrames
    /\ IF rec.phase = "VIOLENCE" /\ rec.current_event
       THEN IF rec.violence_start_time # None
               /\ rec.now - rec.violence_start_time >= CLIP_MAX_DURATION
            THEN rec' = [rec EXCEPT !.frames = @ + 1, !.event_frames = @ + 1,
                                    !.phase = "POST_BUFFER",
                                    !.post_buffer_start = rec.now,
                                    !.violence_start_time = None,
                                    !.violence_since = None]
            ELSE rec' = [rec EXCEPT !.frames = @ + 1, !.event_frames = @ + 1]
       ELSE IF rec.phase = "POST_BUFFER" /\ rec.current_event
            THEN IF rec.post_buffer_start # None
                    /\ rec.now - rec.post_buffer_start >= CLIP_AFTER_SECONDS
                 THEN rec' = [NewRecorder EXCEPT !.now = rec.now,
                                                 !.frames = rec.frames + 1]
                 ELSE rec' = [rec EXCEPT !.frames = @ + 1,
                                         !.post_buffer_frames = @ + 1]
            ELSE rec' = [rec EXCEPT !.frames = @ + 1]
    /\ UNCHANGED <<core_vars, sev, review, mgr, rb, ing, inf, ws, clips, sc, db, shut, rtsp, mj, lz>>

\* on_prediction(score, frame, now): IDLE and violent: _start_event;
\* VIOLENCE and not violent: _end_violence; POST_BUFFER and violent: back
\* to VIOLENCE with the post-buffer frames moved to event_frames and
\* post_buffer_start cleared.
on_prediction(score) ==
    /\ LET violent == score >= VIOLENCE_ALERT_THRESHOLD
       IN  CASE rec.phase = "IDLE" /\ violent ->
                  rec' = [rec EXCEPT !.phase = "VIOLENCE", !.current_event = TRUE,
                                     !.violence_start_time = rec.now,
                                     !.event_frames = 0, !.post_buffer_frames = 0,
                                     !.violence_since = rec.now]
             [] rec.phase = "VIOLENCE" /\ ~violent /\ rec.current_event ->
                  rec' = [rec EXCEPT !.phase = "POST_BUFFER",
                                     !.post_buffer_start = rec.now,
                                     !.violence_start_time = None,
                                     !.violence_since = None]
             [] rec.phase = "POST_BUFFER" /\ violent /\ rec.current_event ->
                  rec' = [rec EXCEPT !.phase = "VIOLENCE",
                                     !.post_buffer_start = None,
                                     !.event_frames = @ + rec.post_buffer_frames,
                                     !.post_buffer_frames = 0,
                                     !.violence_since = rec.now]
             [] OTHER -> UNCHANGED rec
    /\ UNCHANGED <<core_vars, sev, review, mgr, rb, ing, inf, ws, clips, sc, db, shut, rtsp, mj, lz>>

SpecRecorder ==
    /\ Init
    /\ [][\/ recorder_tick
          \/ add_frame
          \/ \E score \in {20, 95} : on_prediction(score)]_vars

\* ==================================================================== C1
\* A step of process_score that calls EventRepository.create.
CreateCalled == pending_create.pc = "none" /\ pending_create'.pc = "create"

\* C1: per stream at most one Event is open at any time: whatever sequence
\* of process_score calls, timed-finalize firings and force_end_event calls
\* came before, EventRepository.create is never called while the phase is
\* ACTIVE or ENDING or while current_event_id is still set.
C1_NoCreateWhileOpen ==
    [][CreateCalled => (phase \notin {"ACTIVE", "ENDING"} /\ current_event_id = None)]_vars

\* ==================================================================== C2
\* C2: an Event is finalized exactly once: under any interleaving of
\* process_score, _complete_event_ending and force_end_event the clip of one
\* event id is written once, EventRepository.finalize_event updates its row
\* once and on_event_end is invoked for it once, never twice.
C2_FinalizedOnce ==
    \A e \in DOMAIN events :
        /\ events[e].n_clip <= 1
        /\ events[e].n_finalize <= 1
        /\ events[e].n_end_cb <= 1

\* ==================================================================== C3
\* A step in which process_score handles one score.
Processed == total_inferences' = total_inferences + 1

\* The score handled in this step was >= threshold (resp. < threshold).
ViolentScore == Processed /\ streak' > 0

CalmScore == Processed /\ streak' = 0

\* C3: an Event is created only on the TRIGGERED -> ACTIVE transition, after
\* min_consecutive (>= 2) consecutive scores >= threshold, a score equal to
\* threshold counting as violent (it takes IDLE to TRIGGERED and TRIGGERED
\* with the count reached to ACTIVE); a score < threshold while TRIGGERED
\* returns the detector to IDLE with the counter reset and creates no Event.
C3_CreateOnlyAfterConsecutive ==
    [][/\ CreateCalled =>
            /\ phase = "TRIGGERED" /\ phase' = "ACTIVE"
            /\ min_consecutive >= 2 => streak' >= min_consecutive
       /\ (ViolentScore /\ phase = "IDLE") =>
            (phase' = "TRIGGERED" /\ ~CreateCalled /\ events' = events)
       /\ (ViolentScore /\ phase = "TRIGGERED"
              /\ consecutive_violent_count + 1 >= min_consecutive) =>
            (phase' = "ACTIVE" /\ CreateCalled)
       /\ (CalmScore /\ phase = "TRIGGERED") =>
            /\ phase' = "IDLE"
            /\ consecutive_violent_count' = 0
            /\ ~CreateCalled
            /\ events' = events]_vars

\* An Event is being created after min_consecutive = 2 scores at threshold.
C3_Witness ==
    /\ min_consecutive >= 2
    /\ pending_create.pc = "create"
    /\ pending_create.score = threshold
    /\ streak >= min_consecutive

\* ==================================================================== C4
\* The rows whose finalization the repository has committed.
Finalized == {e \in DOMAIN events : events[e].end_time # None}

\* C4: after an Event is finalized no new Event is opened until
\* cooldown_seconds have elapsed since its end: while the phase is COOLDOWN
\* and the score's timestamp is before cooldown_until, process_score leaves
\* the phase and the event state unchanged and creates no Event; the first
\* score at or after cooldown_until takes the detector to IDLE and is then
\* processed as in IDLE (a violent one ends in TRIGGERED).
C4_Cooldown ==
    [][/\ CreateCalled =>
            \A e \in Finalized : clock >= events[e].end_time + cooldown_seconds
       /\ (Processed /\ phase = "COOLDOWN" /\ cooldown_until # None
              /\ clock < cooldown_until) =>
            /\ UNCHANGED detector_vars
            /\ ~CreateCalled
            /\ events' = events
       /\ (Processed /\ phase = "COOLDOWN" /\ cooldown_until # None
              /\ clock >= cooldown_until) =>
            /\ phase' = IF streak' > 0 THEN "TRIGGERED" ELSE "IDLE"
            /\ ~CreateCalled]_vars

\* A violent score was processed inside the cooldown of a finalized Event and
\* ignored: the stream was never stopped, so the cooldown was entered by the
\* timed finalize, which runs only after a calm score; the violent score that
\* streak records came after it, and the phase is still COOLDOWN.
C4_Witness ==
    /\ phase = "COOLDOWN"
    /\ cooldown_until # None /\ clock < cooldown_until
    /\ stops = 0
    /\ streak > 0
    /\ \E e \in Finalized : events[e].n_end_cb = 1

\* ==================================================================== C5
\* The timed finalize scheduled on entering ENDING has not fired yet.
FinalizeScheduled ==
    /\ phase = "ENDING"
    /\ ending_task # NoTask
    /\ tasks[ending_task].kind = "ending"
    /\ tasks[ending_task].pc = "sleep"

\* C5: a score >= threshold processed while ENDING, before the scheduled
\* finalize has fired, returns the detector to ACTIVE with the same
\* current_event_id; the scheduled finalize is cancelled and finalizes
\* nothing, and no second Event is created.
C5_ResumeCancelsFinalize ==
    [][(ViolentScore /\ FinalizeScheduled) =>
          /\ phase' = "ACTIVE"
          /\ current_event_id' = current_event_id
          /\ tasks'[ending_task] = DoneTask
          /\ ending_task' = NoTask
          /\ ~CreateCalled
          /\ events' = events]_vars

\* The event resumed from ENDING: back in ACTIVE with one persisted Event,
\* a calm score followed by a violent one among its scores, no finalize left.
C5_Witness ==
    /\ phase = "ACTIVE"
    /\ current_event_id # None
    /\ Len(events) = 1
    /\ ending_task = NoTask
    /\ \A t \in (1..MaxTasks) : tasks[t] = DoneTask
    /\ \E i \in 1..(Len(event_scores) - 1) :
           event_scores[i] < end_threshold /\ event_scores[i + 1] >= threshold

\* ==================================================================== C6
\* The last element of a non-empty sequence.
Last(q) == q[Len(q)]

\* C6: hysteresis.  While ACTIVE every processed score is appended to the
\* event's scores; a score >= end_threshold (one equal to end_threshold and
\* one below threshold included) keeps the phase ACTIVE, and only a score
\* strictly below end_threshold moves the detector to ENDING and schedules
\* the timed finalize clip_after_seconds later.
C6_Hysteresis ==
    [][(Processed /\ phase = "ACTIVE") =>
          /\ Len(event_scores') = Len(event_scores) + 1
          /\ SubSeq(event_scores', 1, Len(event_scores)) = event_scores
          /\ Last(event_scores') >= end_threshold =>
                phase' = "ACTIVE"
          /\ Last(event_scores') < end_threshold =>
                /\ phase' = "ENDING"
                /\ ending_task' # NoTask
                /\ tasks'[ending_task'].kind = "ending"
                /\ tasks'[ending_task'].pc = "sleep"
                /\ tasks'[ending_task'].deadline = clock + clip_after_seconds]_vars

\* A score equal to end_threshold, below threshold, was appended to a
\* persisted event and the phase is still ACTIVE.
C6_Witness ==
    /\ phase = "ACTIVE"
    /\ current_event_id # None
    /\ Len(event_scores) >= 2
    /\ Last(event_scores) = end_threshold
    /\ end_threshold < threshold

\* ==================================================================== C7
\* The timed finalize of a persisted Event has fired, after ENDING lasted
\* more than clip_after_seconds without a violent score, and is suspended in
\* the repository call.
TimedFinalizeFired ==
    /\ phase = "ENDING"
    /\ ending_task # NoTask
    /\ tasks[ending_task].kind = "ending"
    /\ tasks[ending_task].pc = "db"
    /\ clock > tasks[ending_task].deadline

\* C7: once the detector is ENDING with a persisted Event and no score >=
\* threshold arrives during the following clip_after_seconds, the timed
\* finalize fires and completes: the phase leaves ENDING only for COOLDOWN,
\* with cooldown_until = finalization time + cooldown_seconds and
\* current_event_id, the event scores and the clip frames reset.
C7_TimedFinalizeCompletes ==
    [][TimedFinalizeFired =>
          /\ phase' \in {"ENDING", "COOLDOWN"}
          /\ phase' = "COOLDOWN" =>
                /\ cooldown_until' \in {tasks[t].end_time + cooldown_seconds : t \in (1..MaxTasks)}
                /\ current_event_id' = None
                /\ event_scores' = <<>>
                /\ clip_frames' = <<>>]_vars

\* ==================================================================== C8
\* The stream is stopped and nothing is left to run for it.
LegacyQuiescent ==
    /\ ~pipeline_running
    /\ end_task.pc = "none"
    /\ \A i \in (1..MaxInFlight) : results[i].pc = "none"

\* C8: a stream stopped while its detector has an open Event gets that Event
\* finalized: once the stream is stopped and no task of it is left, no Event
\* of it is still open.
C8_StoppedStreamLeavesNoOpenEvent ==
    LegacyQuiescent => \A e \in DOMAIN event_table : event_table[e].end_time # None

\* ==================================================================== C9
\* C9: with min_consecutive = 1 the first score >= threshold processed while
\* IDLE opens the Event: the detector enters ACTIVE and persists it.
C9_OpensOnFirstViolent ==
    [][(min_consecutive = 1 /\ ViolentScore /\ phase = "IDLE") =>
          (phase' = "ACTIVE" /\ CreateCalled)]_vars

\* =================================================================== C10
\* C10: every finalized Event whose score list at finalization is S
\* (non-empty) has max_confidence = max(S), min_confidence = min(S),
\* avg_confidence = mean(S) and severity = severity_of(max(S)), the severity
\* stored at creation being replaced.
C10_FinalizedStatistics ==
    \A e \in DOMAIN event_table :
        LET row == event_table[e]
        IN (row.end_time # None /\ row.S # <<>>) =>
              /\ row.max_confidence = MaxSeq(row.S)
              /\ row.min_confidence = MinSeq(row.S)
              /\ row.avg_sum = SumSeq(row.S) /\ row.avg_n = Len(row.S)
              /\ row.severity = calculate_severity(MaxSeq(row.S))

\* =================================================================== C11
\* The severity bands of the specification, peak in hundredths.
severity_of(peak) ==
    IF peak >= 95 THEN "critical"
    ELSE IF peak >= 85 THEN "high"
    ELSE IF peak >= 75 THEN "medium"
    ELSE "low"

\* C11: severity is a fixed function of the peak confidence (LOW below 0.75,
\* MEDIUM from 0.75, HIGH from 0.85, CRITICAL from 0.95) and every place of
\* the code that computes a severity returns exactly this band for every
\* peak in [0, 1], the boundary values included.
C11_SeverityBands ==
    sev.site # "none" => sev.severity = severity_of(sev.peak)

\* =================================================================== C12
\* C12: an Event's review status only moves from PENDING to one of
\* CONFIRMED, DISMISSED, AUTO_DISMISSED, ACTION_EXECUTED, NO_ACTION_REQUIRED
\* and is terminal once it is not PENDING: no later confirm, dismiss,
\* action-executed or no-action-required call changes it.
C12_ReviewStatusTerminal ==
    [][\A e \in (1..MaxReviewEvents) :
          /\ review'[e].status \in {"PENDING", "CONFIRMED", "DISMISSED", "AUTO_DISMISSED",
                                    "ACTION_EXECUTED", "NO_ACTION_REQUIRED"}
          /\ review[e].status # "PENDING" =>
                review'[e].status = review[e].status]_vars

\* =================================================================== C13
\* C13: at most one running component graph (capture worker, inference
\* task, detector) exists per stream_id under any interleaving of
\* start_stream / stop_stream calls, and a running graph is the one the
\* stream table holds: it is never orphaned by being overwritten.
C13_OneRunningGraph ==
    /\ Cardinality({g \in (1..MaxGraphs) : graph_is_running(g)}) <= 1
    /\ \A g \in (1..MaxGraphs) : graph_is_running(g) => mgr.streams = g

\* =================================================================== C14
\* C14: the ring buffer's length stays within [0, buffer_size]; pushing onto
\* a full buffer evicts exactly the oldest packet, so after n pushes the
\* buffer holds the most recent min(n, buffer_size) packets in push order.
C14_HoldsMostRecent ==
    /\ Len(rb.buffer) = Min2(Len(rb.pushed), max_size)
    /\ \A i \in 1..Len(rb.buffer) :
          rb.buffer[i] = rb.pushed[Len(rb.pushed) - Len(rb.buffer) + i]

\* More packets were pushed than the buffer holds: the oldest were evicted.
C14_Witness ==
    /\ Len(rb.pushed) > max_size + 1
    /\ Len(rb.buffer) = max_size
    /\ rb.buffer[1].frame_number = Len(rb.pushed) - max_size + 1

\* =================================================================== C15
\* C15: the frame_number of the packets pushed into the ring buffer is
\* strictly increasing and contiguous from 1 (each is the previous plus 1),
\* across frame drops, reconnects and stop()/start() cycles of the source.
C15_FrameNumbersContiguous ==
    \A i \in 1..Len(ing.pushed) : ing.pushed[i] = i

\* =================================================================== C16
\* C16: for every k >= 0 the read of the last k consecutive packets returns
\* the newest min(k, length) buffered packets, unchanged and in insertion
\* order, and never more than k packets.
C16_NewestK ==
    rb.query.op \in {"get_latest", "get_latest_consecutive"} =>
        /\ Len(rb.query.result) = Min2(rb.query.arg, Len(rb.buffer))
        /\ \A i \in 1..Len(rb.query.result) :
              rb.query.result[i] = rb.buffer[Len(rb.buffer) - Len(rb.query.result) + i]

\* =================================================================== C17
\* C17: the window read returns exactly the buffered packets stamped within
\* the last `seconds` seconds, never an older one, and none for seconds = 0.
C17_WindowByTimestamp ==
    rb.query.op = "get_window" =>
        /\ \A i \in 1..Len(rb.query.result) :
              rb.query.result[i].timestamp >= rb.now - rb.query.arg
        /\ \A i \in 1..Len(rb.buffer) :
              rb.buffer[i].timestamp > rb.now - rb.query.arg =>
                 \E j \in 1..Len(rb.query.result) : rb.query.result[j] = rb.buffer[i]
        /\ rb.query.arg = 0 => rb.query.result = <<>>

\* =================================================================== C18
\* C18: the InferenceScores a stream emits are strictly ordered by
\* window_end, so the same newest frame is never classified twice, also
\* while the source is disconnected and no new frame arrives.
StrictlyIncreasing(s) == \A i, j \in 1..Len(s) : i < j => s[i] < s[j]

C18_WindowsStrictlyOrdered ==
    /\ StrictlyIncreasing(inf.emitted)
    /\ StrictlyIncreasing(inf.results_emitted)

\* =================================================================== C19
\* C19: the detector observes a stream's results in the order the inference
\* loop emitted them: the state update for a result starts only when no
\* result emitted before it is still waiting for its state update, although
\* each result runs in its own task that first awaits a repository write.
C19_ObservedInEmissionOrder ==
    [][\A i \in (1..MaxInFlight) :
          (results[i].pc = "log" /\ results'[i].pc # "log") =>
              \A j \in (1..MaxInFlight) :
                  results[j].pc = "log" => results[j].seq >= results[i].seq]_vars

\* =================================================================== C20
\* C20: after stop() the last status the source reports is STOPPED: no
\* other status (CONNECTED, DISCONNECTED or ERROR from the still-exiting
\* reader thread) is reported after it until the next start().
C20_StoppedIsLast ==
    [][(ing.status = "stopped" /\ ~ing.is_running /\ ~ing'.is_running)
          => ing'.status = "stopped"]_vars

\* =================================================================== C21
\* C21: with max_reconnect_attempts unset (-1), while the source is running
\* every disconnect or connection error is followed by RECONNECTING and then
\* by a new connection attempt; the reader thread never exits on its own.
C21_RetriesForever ==
    /\ [][\A t \in (1..MaxThreads) :
             (ing.max_reconnect_attempts = -1 /\ ing.threads[t] # "none"
                 /\ ing'.threads[t] = "none") => ~ing.is_running]_vars
    /\ [][\A t \in (1..MaxThreads) :
             (ing.max_reconnect_attempts = -1 /\ ing.threads[t] = "after"
                 /\ ing'.threads[t] # "after" /\ ing.is_running)
             => ing'.threads[t] = "sleep" /\ ing'.status = "reconnecting"]_vars
    /\ \A t \in (1..MaxThreads) :
          (ing.max_reconnect_attempts = -1 /\ ing.threads[t] = "after" /\ ing.is_running)
             ~> (ing.threads[t] = "popen" \/ ~ing.is_running)

\* A second reconnect in a row is under way with no budget set.
C21_Witness ==
    /\ ing.max_reconnect_attempts = -1
    /\ ing.is_running
    /\ ing.attempts >= 2
    /\ \E t \in (1..MaxThreads) : ing.threads[t] = "popen"

\* =================================================================== C22
\* C22: with max_reconnect_attempts = N > 0 a source whose connection
\* attempts deliver no frame makes at most N reconnect attempts; the attempt
\* counter is reset only by a connection that delivered frames.
C22_BoundedReconnects ==
    ing.max_reconnect_attempts > 0 => ing.attempts <= ing.max_reconnect_attempts

\* =================================================================== C23
\* C23: once stop() has been called and every reader thread has exited, no
\* decoder process the source started is still running.
C23_DecodersReleased ==
    (~ing.is_running /\ \A t \in (1..MaxThreads) : ing.threads[t] = "none")
        => ing.process = 0 /\ ing.orphans = 0

\* =================================================================== C24
\* C24: a single slow subscriber does not block the others: a message being
\* broadcast is still delivered to every other subscriber it was broadcast
\* to (or that subscriber's connection is dropped because its send failed).
C24_SlowSubscriberDoesNotBlock ==
    \A m \in (1..MaxMessages), c \in (1..MaxSubscribers) :
        (ws.calls[m].pc = "sending" /\ c \in Connected(ws.calls[m].copy) /\ c # ws.slow)
            ~> (m \in ws.delivered[c] \/ c \notin Connected(ws.active_connections))

\* =================================================================== C25
\* C25: for each event id the broadcast messages come in the order
\* event start, then alerts, then event end: no alert carrying the event's
\* id is sent before its start message or after its end message.
C25_AlertsBetweenStartAndEnd ==
    \A e \in 1..Len(events) :
        \A j \in 1..Len(events[e].broadcast) :
            events[e].broadcast[j] = "alert" =>
                /\ \E i \in 1..(j - 1) : events[e].broadcast[i] = "event_started"
                /\ \A i \in 1..(j - 1) : events[e].broadcast[i] # "event_ended"

\* =================================================================== C26
\* C26: when the clip encoding failed at finalization the Event is still
\* finalized with its end time, its clip_path, clip_duration and
\* thumbnail_path all stay null, and no partial clip file is left in the
\* clips directory.
C26_FailedClipLeavesNothing ==
    \A e \in (1..MaxClipEvents) :
        clips.rows[e].encoding_failed =>
            /\ clips.rows[e].status = "PENDING"
            /\ clips.rows[e].end_time # None
            /\ clips.rows[e].clip_path = None
            /\ clips.rows[e].clip_duration = None
            /\ clips.rows[e].thumbnail_path = None
            /\ ClipFile(e) \notin clips.files

\* =================================================================== C27
\* C27: a classifier output that is not a number or lies outside [0, 1] is
\* treated as score 0: the detector is left in the state a score of 0
\* would leave it in (it is not violent, opens no Event and prolongs
\* none), and every recorded score statistic of an Event lies in [0, 1].
InUnitRange(x) == x # NaN /\ 0 <= x /\ x <= 100

Treated(d) == [d EXCEPT !.last = 0]

C27_InvalidScoreIsZero ==
    /\ [](\A i \in 1..Len(sc.rows) :
             /\ InUnitRange(sc.rows[i].max_confidence)
             /\ InUnitRange(sc.rows[i].min_confidence)
             /\ sc.rows[i].sum_confidence # NaN
             /\ 0 <= sc.rows[i].sum_confidence
             /\ sc.rows[i].sum_confidence <= 100 * sc.rows[i].n_scores)
    /\ [][(sc'.processed = sc.processed + 1 /\ ~InUnitRange(sc'.last)) =>
             \E cooled \in BOOLEAN :
                 Treated(sc') = Treated(process_score(sc, 0, cooled))]_vars

\* =================================================================== C28
\* C28: init_db attempts the connection at most 5 times with a 3 s wait
\* between attempts, returns at the first successful attempt without
\* further attempts, and after the 5th consecutive failure raises instead
\* of returning: startup never proceeds with an uninitialized repository.
C28_BoundedRetries ==
    /\ Len(db.log) <= 5
    /\ \A i \in 1..(Len(db.log) - 1) :
          /\ ~db.log[i].ok
          /\ db.log[i + 1].start = db.log[i].end + 3
    /\ db.pc = "returned" => db.log[Len(db.log)].ok /\ db.engine
    /\ db.pc = "raised" => Len(db.log) = 5
    /\ (Len(db.log) = 5 /\ ~db.log[5].ok) => db.pc = "raised"
    /\ db.is_initialized => db.engine

C28_Witness ==
    /\ db.pc = "raised"
    /\ Len(db.log) = 5
    /\ \A i \in 1..5 : ~db.log[i].ok
    /\ ~db.is_initialized

\* =================================================================== C29
\* C29: graceful shutdown flushes in-flight events: every Event that was
\* open when shutdown() started has been finalized in the repository by
\* the time the repository connection is closed and shutdown() returns.
C29_ShutdownFlushesEvents ==
    shut.engine_disposed => shut.open_at_shutdown \subseteq shut.finalized

\* =================================================================== C30
\* C30: a tick of the inference loop calls the classifier only if the
\* source is connected, the buffer yields exactly the required number of
\* consecutive frames, and the newest frame's number differs from the last
\* processed one; on any other tick (0 or 1 buffered frames included) no
\* score is emitted and the last processed number is left as it is.
C30_ClassifierGuards ==
    [][(inf'.results_emitted # inf.results_emitted
            \/ inf'.last_frame_number # inf.last_frame_number) =>
          /\ inf.is_connected
          /\ get_consecutive_frames(inf.newest, sample_frames) = sample_frames
          /\ inf.newest # inf.last_frame_number
          /\ inf'.last_frame_number = inf.newest]_vars

C30_Witness ==
    /\ Len(inf.results_emitted) >= 2
    /\ inf.last_frame_number = inf.newest
    /\ ~inf.is_connected

\* =================================================================== C31
\* C31: when the classifier call fails or times out on a tick, no result is
\* emitted for that tick and the detector is not called with one, and the
\* loop goes on: only the loop's record of the last frame changes, and
\* later windows are classified and emitted as before.
C31_FailedTickEmitsNothing ==
    /\ [](\A i \in 1..Len(inf.failed), j \in 1..Len(inf.results_emitted) :
             inf.failed[i] # inf.results_emitted[j])
    /\ [][Len(inf'.failed) > Len(inf.failed) =>
             /\ inf'.results_emitted = inf.results_emitted
             /\ inf'.emitted = inf.emitted
             /\ inf'.is_connected = inf.is_connected
             /\ inf'.newest = inf.newest]_vars

C31_Witness ==
    /\ inf.failed # <<>>
    /\ inf.results_emitted # <<>>
    /\ inf.results_emitted[Len(inf.results_emitted)] > inf.failed[1]

\* =================================================================== C32
\* C32: the frame list handed to the clip recorder at finalization holds
\* each frame_number at most once, in increasing order, however the
\* pre-roll snapshot, the in-event frames and the post-roll window overlap.
C32_ClipFramesOnceInOrder ==
    \A t \in 1..MaxTasks :
        tasks[t].kind # "none" => StrictlyIncreasing(tasks[t].clip)

\* =================================================================== C33
\* C33: stop_stream cancels the stream's pending timed finalize: while the
\* stream is stopped, no timed finalize task that was sleeping at the stop
\* wakes and runs finalization (reaches its repository call).
C33_StopCancelsTimedFinalize ==
    [][~is_running =>
          \A t \in 1..MaxTasks :
              (tasks[t].kind = "ending" /\ tasks[t].pc = "sleep") =>
                  tasks'[t].pc # "db"]_vars

\* =================================================================== C34
\* C34: score processing and the timed finalization of a detector are
\* serialized: while _end_event is finalizing an event (suspended in the
\* repository update, its full clip written) no process_result changes the
\* EventState, and the finalization ends only by completing, with the
\* event no longer active.
C34_FinalizationNotInterrupted ==
    [][end_task.pc = "db" =>
          /\ end_task'.pc = "db" => state' = state
          /\ end_task'.pc # "db" => ~state'.is_active]_vars

\* =================================================================== C35
\* C35: stopping a stream resets its score smoother: whenever the stream is
\* not running, the window of recent raw scores is empty and the count of
\* consecutive high scores is 0, so no score from before a stop enters a
\* mean or the count after the next start.
C35_StopResetsSmoother ==
    ~rtsp.is_running =>
        /\ rtsp.recent_scores = <<>>
        /\ rtsp.consecutive_high_count = 0

\* =================================================================== C36
\* C36: an MJPEG preview generator whose stream has been removed exits at
\* its next iteration: a step of a streaming generator taken while its
\* stream id is not in the manager's streams ends the generator.
C36_PreviewExitsWhenStreamGone ==
    [][\A w \in (1..MaxWorkers) :
          (/\ mj.workers[w].pc = "streaming"
           /\ mj.workers[w].stream_id \notin mj.streams
           /\ mj'.workers[w] # mj.workers[w]) => mj'.workers[w].pc = "done"]_vars

\* =================================================================== C37
\* C37: a stream loaded at startup is a lazy entry with nothing running; no
\* id is in lazy_streams and in streams at once; a start of a lazy id moves
\* it to streams and starts it; and every get_all_status returns exactly
\* one entry for each id of streams or lazy_streams and none for any other.
C37_LazyAndActiveDisjoint ==
    /\ [](/\ lz.lazy_streams \cap lz.streams = {}
          /\ lz.lazy_streams \cap lz.running = {}
          /\ lz.lazy_streams \subseteq 1..lz.loaded)
    /\ [][\A id \in (1..MaxStreams) :
             /\ (id \in lz.lazy_streams /\ id \in lz'.running) =>
                    (id \in lz'.streams /\ id \notin lz'.lazy_streams)
             /\ lz'.reported # lz.reported =>
                    lz'.reported[id] = IF id \in lz'.streams \cup lz'.lazy_streams
                                       THEN 1 ELSE 0]_vars

C37_Witness ==
    /\ \E id \in 1..lz.loaded : id \in lz.streams /\ lz.reported[id] = 1
    /\ \E id \in lz.lazy_streams : lz.reported[id] = 1
    /\ \E id \in lz.streams : id > lz.loaded /\ id \notin lz.running /\ lz.reported[id] = 1

\* =================================================================== C38
\* C38: a failed EventRepository.create does not wedge the detector: while
\* the stream runs, a detector that is in ENDING without an event id (the
\* create raised) still has its timed finalization pending, which is what
\* takes it to COOLDOWN and from there to IDLE once the scores stay low.
C38_FailedCreateStillFinalizes ==
    (/\ phase = "ENDING"
     /\ current_event_id = None
     /\ pending_create.pc # "create"
     /\ stops = 0)
        => \E t \in 1..MaxTasks :
               tasks[t].kind = "ending" /\ tasks[t].pc \in {"sleep", "db"}

\* =================================================================== C39
\* C39: after any sequence of start() and stop() of a source, at most one
\* reader thread is reading the decoder or pushing a frame.
C39_SingleCaptureWorker ==
    Cardinality({t \in (1..MaxThreads) : ing.threads[t] \in {"reading", "counted"}}) <= 1

\* =================================================================== C40
\* C40: every VIOLENCE period of the recorder, entered from IDLE or by
\* resuming from POST_BUFFER, is force-ended: a frame added once the period
\* has lasted CLIP_MAX_DURATION seconds takes the recorder to POST_BUFFER.
C40_ViolenceForceEnded ==
    [][(/\ rec.phase = "VIOLENCE"
        /\ rec'.frames > rec.frames
        /\ rec.now - rec.violence_since >= CLIP_MAX_DURATION)
          => rec'.phase = "POST_BUFFER"]_vars

====
